---------------------------- MODULE Spec2Model ----------------------------
(***************************************************************************)
(* A model of pyamlo, a YAML configuration loader: its security policy,    *)
(* the gates the loader, the include pipeline and the resolver put in      *)
(* front of privileged actions, and the merge engine.                      *)
(*                                                                         *)
(* Strings are sequences of one-character strings.  A bracket class of a   *)
(* glob pattern, "[ab]", is kept as one element of the pattern.            *)
(***************************************************************************)
EXTENDS Integers, Sequences, FiniteSets, TLC

VARIABLES
    policy,     \* the SecurityPolicy object: its five attributes
    last,       \* the last policy check made directly: op, arg, outcome
    environ,    \* os.environ: variable name -> value, or NoValue
    files,      \* the file system: path -> the document the file parses to
    ctx,        \* Resolver.ctx: dotted path -> resolved value
    log,        \* privileged events of the running operation, in order
    outcome,    \* what the last loader / resolver operation returned or raised
    mbase,      \* deep_merge: the base mapping a, as passed
    mover,      \* deep_merge: the overlay mapping b
    mres,       \* deep_merge: what the call returned or raised
    stack,      \* the calls of an include expansion in progress, the last
                \* one the innermost
    heap        \* the mappings a caller passes as sources, as objects that
                \* are shared by every reference to them

vars ==
    <<policy, last, environ, files, ctx, log, outcome, mbase, mover, mres,
      stack, heap>>

secVars   == <<policy, last>>
gateVars  == <<environ, files, ctx, log, outcome, stack, heap>>
mergeVars == <<mbase, mover, mres>>

----------------------------------------------------------------------------
(* Bounds *)

MaxLen == 2             \* longest value handed to a policy check
MaxPolicyPatterns == 2  \* patterns in the three allow-sets together
MaxItems == 1           \* longest sequence in a document handed to deep_merge
MaxOverrides == 2       \* entries in a list of command-line overrides

----------------------------------------------------------------------------
(* Strings *)

SeqsUpTo(S, n) == UNION { [1..k -> S] : k \in 0..n }

ValAlphabet == {"a", "b"}

Values == SeqsUpTo(ValAlphabet, MaxLen)

\* The patterns a policy may hold: a literal, a star, a question mark, a class.
PatternPool ==
    { <<"a", "b">>, <<"a", "*">>, <<"?">>, <<"[ab]", "a">> }

IsClass(c) == c = "[ab]"

ClassOf(c) == IF c = "[ab]" THEN {"a", "b"} ELSE {}

\* fnmatch.fnmatch(name, pat) on a POSIX host (normcase is the identity):
\* the pattern is translated to a regular expression that must match all of name.
RECURSIVE fnmatch(_, _)
fnmatch(name, pat) ==
    IF pat = <<>> THEN name = <<>>
    ELSE LET h == Head(pat) IN
         IF h = "*"
         THEN fnmatch(name, Tail(pat))
              \/ (name # <<>> /\ fnmatch(Tail(name), pat))
         ELSE IF name = <<>> THEN FALSE
         ELSE IF h = "?" THEN fnmatch(Tail(name), Tail(pat))
         ELSE IF IsClass(h)
              THEN Head(name) \in ClassOf(h) /\ fnmatch(Tail(name), Tail(pat))
              ELSE Head(name) = h /\ fnmatch(Tail(name), Tail(pat))

----------------------------------------------------------------------------
(* SecurityPolicy *)

NoneArg == "None"

\* SecurityPolicy.__init__: None for a set is the empty set; allow_expressions
\* left at None defaults to the opposite of restrictive.
SecurityPolicy(env, imp, inc, allowExpr, restrictive) ==
    [ restrictive           |-> restrictive,
      allowed_env_vars      |-> env,
      allowed_imports       |-> imp,
      allowed_include_paths |-> inc,
      allow_expressions     |->
          IF allowExpr = NoneArg THEN ~restrictive ELSE allowExpr = "True" ]

_matches_patterns(check, patterns) == \E pattern \in patterns : fnmatch(check, pattern)

Permit == "ok"
Deny == "PermissionError"

check_env_var(p, name) ==
    IF p.restrictive
    THEN IF name \notin p.allowed_env_vars THEN Deny ELSE Permit
    ELSE IF p.allowed_env_vars # {} /\ name \notin p.allowed_env_vars
         THEN Deny ELSE Permit

\* check_import with set membership in place of pattern matching.
check_import_exact(p, module) ==
    IF p.restrictive
    THEN IF module \notin p.allowed_imports THEN Deny ELSE Permit
    ELSE IF p.allowed_imports # {} /\ module \in p.allowed_imports
         THEN Deny ELSE Permit

check_import(p, module) ==
    IF p.restrictive
    THEN IF ~_matches_patterns(module, p.allowed_imports) THEN Deny ELSE Permit
    ELSE IF p.allowed_imports # {} /\ _matches_patterns(module, p.allowed_imports)
         THEN Deny ELSE Permit

\* check_include with the permissive branch treating the set as a denylist.
check_include_denylist(p, path) ==
    IF p.restrictive
    THEN IF ~_matches_patterns(path, p.allowed_include_paths) THEN Deny ELSE Permit
    ELSE IF p.allowed_include_paths # {}
            /\ _matches_patterns(path, p.allowed_include_paths)
         THEN Deny ELSE Permit

check_include(p, path) ==
    IF p.restrictive
    THEN IF ~_matches_patterns(path, p.allowed_include_paths) THEN Deny ELSE Permit
    ELSE IF p.allowed_include_paths # {}
            /\ ~_matches_patterns(path, p.allowed_include_paths)
         THEN Deny ELSE Permit

check_expression(p, expr) == IF ~p.allow_expressions THEN Deny ELSE Permit

\* The allow-set arguments a caller may pass: at most MaxPolicyPatterns
\* patterns in all.
SetsUpTo(S, n) == { T \in SUBSET S : Cardinality(T) <= n }

PolicyArgs ==
    { t \in SetsUpTo(PatternPool, MaxPolicyPatterns)
            \X SetsUpTo(PatternPool, MaxPolicyPatterns)
            \X SetsUpTo(PatternPool, MaxPolicyPatterns) :
        Cardinality(t[1]) + Cardinality(t[2]) + Cardinality(t[3])
            <= MaxPolicyPatterns }

Policies ==
    { SecurityPolicy(t[1], t[2], t[3], ae, r) :
        t \in PolicyArgs, ae \in {NoneArg, "True", "False"}, r \in BOOLEAN }

NoCall == [op |-> "none", arg |-> <<>>, res |-> Permit]

----------------------------------------------------------------------------
(* Values kept out of a specification's way *)

\* None where a string is expected: no string has this element.
NoValue == <<"None">>

\* No mapping was passed as a source.
NoHeap == [objects |-> <<>>, sources |-> <<>>]

IdleGate ==
    /\ environ = [n \in {} |-> NoValue]
    /\ files = [n \in {} |-> NoValue]
    /\ ctx = [n \in {} |-> NoValue]
    /\ log = <<>>
    /\ outcome = [op |-> "none"]
    /\ stack = <<>>
    /\ heap = NoHeap

\* One privileged event: a policy check with its verdict, or the action a
\* check is there to guard.
Event(ev, arg, res) == [ev |-> ev, arg |-> arg, res |-> res]

\* self.ctx[path] = value, as the log records it: kind says which assignment
\* of Resolver.resolve made it.
Bound(path, kind, value) ==
    [ev |-> "bind", arg |-> path, res |-> kind, val |-> value]

IdleMerge ==
    /\ mbase = <<>>
    /\ mover = <<>>
    /\ mres = [op |-> "none"]

----------------------------------------------------------------------------
(* SpecSec: a policy and the checks made on it *)

InitSec ==
    /\ policy \in Policies
    /\ last = NoCall
    /\ IdleGate
    /\ IdleMerge

CheckEnvVar ==
    \E name \in Values :
        /\ last' = [op |-> "env", arg |-> name, res |-> check_env_var(policy, name)]
        /\ UNCHANGED <<policy, gateVars, mergeVars>>

CheckImport ==
    \E module \in Values :
        /\ last' = [op |-> "import", arg |-> module,
                    res |-> check_import(policy, module)]
        /\ UNCHANGED <<policy, gateVars, mergeVars>>

CheckInclude ==
    \E path \in Values :
        /\ last' = [op |-> "include", arg |-> path,
                    res |-> check_include(policy, path)]
        /\ UNCHANGED <<policy, gateVars, mergeVars>>

CheckExpression ==
    \E expr \in Values :
        /\ last' = [op |-> "expression", arg |-> expr,
                    res |-> check_expression(policy, expr)]
        /\ UNCHANGED <<policy, gateVars, mergeVars>>

NextSec == CheckEnvVar \/ CheckImport \/ CheckInclude \/ CheckExpression

SpecSec == InitSec /\ [][NextSec]_vars

----------------------------------------------------------------------------
(* Document trees and spec nodes (tags.py).  A mapping is the sequence of   *)
(* its <<key, value>> entries in insertion order, as a Python dict keeps    *)
(* them; its keys are distinct.                                             *)

None == [t |-> "none"]
Scalar(n) == [t |-> "scalar", v |-> n]
List(xs) == [t |-> "list", items |-> xs]
Dict(es) == [t |-> "dict", entries |-> es]
ExtendSpec(xs) == [t |-> "extend", items |-> xs]
PatchSpec(es) == [t |-> "patch", mapping |-> es]
CallSpec(path, args, kwargs) ==
    [t |-> "call", path |-> path, args |-> args, kwargs |-> kwargs]

KeysOf(d) == { d[i][1] : i \in DOMAIN d }

HasKey(d, k) == \E i \in DOMAIN d : d[i][1] = k

\* dict.get(key): the value, or None when the key is absent.
Get(d, k) ==
    IF HasKey(d, k)
    THEN d[CHOOSE i \in DOMAIN d : d[i][1] = k][2]
    ELSE None

\* d[key] = v: an existing key keeps its place, a new key goes last.
Put(d, k, v) ==
    IF HasKey(d, k)
    THEN [i \in DOMAIN d |-> IF d[i][1] = k THEN <<k, v>> ELSE d[i]]
    ELSE Append(d, <<k, v>>)

Returned(v) == [ok |-> TRUE, val |-> v]
MergeError(kind, key) == [ok |-> FALSE, err |-> kind, key |-> key]

RECURSIVE deep_merge(_, _)
RECURSIVE merge_from(_, _, _)
\* merge_from with the extension put before the base sequence.
merge_from_prepend(a, b, i) ==
    IF i > Len(b) THEN Returned(a)
    ELSE
      LET key == b[i][1]
          val == b[i][2]
          existing == Get(a, key)
      IN
      IF existing.t = "call" /\ val.t = "patch"
      THEN merge_from(Put(a, key, [existing EXCEPT !.kwargs = val.mapping]), b, i + 1)
      ELSE IF existing.t = "call" /\ val.t = "dict"
      THEN LET r == deep_merge(existing.kwargs, val.entries) IN
           IF r.ok
           THEN merge_from(Put(a, key, [existing EXCEPT !.kwargs = r.val]), b, i + 1)
           ELSE r
      ELSE IF existing.t = "list" /\ val.t = "extend"
      THEN merge_from(Put(a, key, List(val.items \o existing.items)), b, i + 1)
      ELSE IF existing.t = "dict" /\ val.t = "patch"
      THEN merge_from(Put(a, key, Dict(val.mapping)), b, i + 1)
      ELSE IF val.t = "patch"
      THEN MergeError("Cannot patch non-dict", key)
      ELSE IF val.t = "extend"
      THEN MergeError("Cannot extend non-list", key)
      ELSE IF existing.t = "dict" /\ val.t = "dict"
      THEN LET r == deep_merge(existing.entries, val.entries) IN
           IF r.ok
           THEN merge_from(Put(a, key, Dict(r.val)), b, i + 1)
           ELSE r
      ELSE merge_from(Put(a, key, val), b, i + 1)


\* merge_from with a PatchSpec or ExtendSpec at a key the base lacks copied
\* like any other value.
merge_from_copy_absent(a, b, i) ==
    IF i > Len(b) THEN Returned(a)
    ELSE
      LET key == b[i][1]
          val == b[i][2]
          existing == Get(a, key)
      IN
      IF ~HasKey(a, key)
      THEN merge_from(Put(a, key, val), b, i + 1)
      ELSE IF existing.t = "call" /\ val.t = "patch"
      THEN merge_from(Put(a, key, [existing EXCEPT !.kwargs = val.mapping]), b, i + 1)
      ELSE IF existing.t = "call" /\ val.t = "dict"
      THEN LET r == deep_merge(existing.kwargs, val.entries) IN
           IF r.ok
           THEN merge_from(Put(a, key, [existing EXCEPT !.kwargs = r.val]), b, i + 1)
           ELSE r
      ELSE IF existing.t = "list" /\ val.t = "extend"
      THEN merge_from(Put(a, key, List(existing.items \o val.items)), b, i + 1)
      ELSE IF existing.t = "dict" /\ val.t = "patch"
      THEN merge_from(Put(a, key, Dict(val.mapping)), b, i + 1)
      ELSE IF val.t = "patch"
      THEN MergeError("Cannot patch non-dict", key)
      ELSE IF val.t = "extend"
      THEN MergeError("Cannot extend non-list", key)
      ELSE IF existing.t = "dict" /\ val.t = "dict"
      THEN LET r == deep_merge(existing.entries, val.entries) IN
           IF r.ok
           THEN merge_from(Put(a, key, Dict(r.val)), b, i + 1)
           ELSE r
      ELSE merge_from(Put(a, key, val), b, i + 1)


\* merge_from with a PatchSpec replacing whatever the base holds, not only a
\* mapping.
merge_from_patch_any(a, b, i) ==
    IF i > Len(b) THEN Returned(a)
    ELSE
      LET key == b[i][1]
          val == b[i][2]
          existing == Get(a, key)
      IN
      IF existing.t = "call" /\ val.t = "patch"
      THEN merge_from(Put(a, key, [existing EXCEPT !.kwargs = val.mapping]), b, i + 1)
      ELSE IF existing.t = "call" /\ val.t = "dict"
      THEN LET r == deep_merge(existing.kwargs, val.entries) IN
           IF r.ok
           THEN merge_from(Put(a, key, [existing EXCEPT !.kwargs = r.val]), b, i + 1)
           ELSE r
      ELSE IF existing.t = "list" /\ val.t = "extend"
      THEN merge_from(Put(a, key, List(existing.items \o val.items)), b, i + 1)
      ELSE IF existing.t # "none" /\ val.t = "patch"
      THEN merge_from(Put(a, key, Dict(val.mapping)), b, i + 1)
      ELSE IF val.t = "patch"
      THEN MergeError("Cannot patch non-dict", key)
      ELSE IF val.t = "extend"
      THEN MergeError("Cannot extend non-list", key)
      ELSE IF existing.t = "dict" /\ val.t = "dict"
      THEN LET r == deep_merge(existing.entries, val.entries) IN
           IF r.ok
           THEN merge_from(Put(a, key, Dict(r.val)), b, i + 1)
           ELSE r
      ELSE merge_from(Put(a, key, val), b, i + 1)


\* merge_from with a PatchSpec over a CallSpec merged into the keyword
\* arguments, not put in their place.
merge_from_patch_into_kwargs(a, b, i) ==
    IF i > Len(b) THEN Returned(a)
    ELSE
      LET key == b[i][1]
          val == b[i][2]
          existing == Get(a, key)
      IN
      IF existing.t = "call" /\ val.t = "patch"
      THEN LET r == deep_merge(existing.kwargs, val.mapping) IN
           IF r.ok
           THEN merge_from(Put(a, key, [existing EXCEPT !.kwargs = r.val]), b, i + 1)
           ELSE r
      ELSE IF existing.t = "call" /\ val.t = "dict"
      THEN LET r == deep_merge(existing.kwargs, val.entries) IN
           IF r.ok
           THEN merge_from(Put(a, key, [existing EXCEPT !.kwargs = r.val]), b, i + 1)
           ELSE r
      ELSE IF existing.t = "list" /\ val.t = "extend"
      THEN merge_from(Put(a, key, List(existing.items \o val.items)), b, i + 1)
      ELSE IF existing.t = "dict" /\ val.t = "patch"
      THEN merge_from(Put(a, key, Dict(val.mapping)), b, i + 1)
      ELSE IF val.t = "patch"
      THEN MergeError("Cannot patch non-dict", key)
      ELSE IF val.t = "extend"
      THEN MergeError("Cannot extend non-list", key)
      ELSE IF existing.t = "dict" /\ val.t = "dict"
      THEN LET r == deep_merge(existing.entries, val.entries) IN
           IF r.ok
           THEN merge_from(Put(a, key, Dict(r.val)), b, i + 1)
           ELSE r
      ELSE merge_from(Put(a, key, val), b, i + 1)


\* merge_from with a mapping over a mapping put in its place, not merged
\* into it.
merge_from_shallow(a, b, i) ==
    IF i > Len(b) THEN Returned(a)
    ELSE
      LET key == b[i][1]
          val == b[i][2]
          existing == Get(a, key)
      IN
      IF existing.t = "call" /\ val.t = "patch"
      THEN merge_from(Put(a, key, [existing EXCEPT !.kwargs = val.mapping]), b, i + 1)
      ELSE IF existing.t = "call" /\ val.t = "dict"
      THEN LET r == deep_merge(existing.kwargs, val.entries) IN
           IF r.ok
           THEN merge_from(Put(a, key, [existing EXCEPT !.kwargs = r.val]), b, i + 1)
           ELSE r
      ELSE IF existing.t = "list" /\ val.t = "extend"
      THEN merge_from(Put(a, key, List(existing.items \o val.items)), b, i + 1)
      ELSE IF existing.t = "dict" /\ val.t = "patch"
      THEN merge_from(Put(a, key, Dict(val.mapping)), b, i + 1)
      ELSE IF val.t = "patch"
      THEN MergeError("Cannot patch non-dict", key)
      ELSE IF val.t = "extend"
      THEN MergeError("Cannot extend non-list", key)
      ELSE merge_from(Put(a, key, val), b, i + 1)


\* deep_merge(a, b): the match statement of merge.py:22-38 applied to b's
\* entries in order, each to the mapping the earlier ones left.  The result
\* is the value of a when the call returns, or the MergeError it raises.
merge_from(a, b, i) ==
    IF i > Len(b) THEN Returned(a)
    ELSE
      LET key == b[i][1]
          val == b[i][2]
          existing == Get(a, key)
      IN
      IF existing.t = "call" /\ val.t = "patch"
      THEN merge_from(Put(a, key, [existing EXCEPT !.kwargs = val.mapping]), b, i + 1)
      ELSE IF existing.t = "call" /\ val.t = "dict"
      THEN LET r == deep_merge(existing.kwargs, val.entries) IN
           IF r.ok
           THEN merge_from(Put(a, key, [existing EXCEPT !.kwargs = r.val]), b, i + 1)
           ELSE r
      ELSE IF existing.t = "list" /\ val.t = "extend"
      THEN merge_from(Put(a, key, List(existing.items \o val.items)), b, i + 1)
      ELSE IF existing.t = "dict" /\ val.t = "patch"
      THEN merge_from(Put(a, key, Dict(val.mapping)), b, i + 1)
      ELSE IF val.t = "patch"
      THEN MergeError("Cannot patch non-dict", key)
      ELSE IF val.t = "extend"
      THEN MergeError("Cannot extend non-list", key)
      ELSE IF existing.t = "dict" /\ val.t = "dict"
      THEN LET r == deep_merge(existing.entries, val.entries) IN
           IF r.ok
           THEN merge_from(Put(a, key, Dict(r.val)), b, i + 1)
           ELSE r
      ELSE merge_from(Put(a, key, val), b, i + 1)

deep_merge(a, b) == merge_from(a, b, 1)

----------------------------------------------------------------------------
(* SpecMerge: deep_merge applied to a base and an overlay *)

KeyNames == {"k1", "k2"}

\* Base values hold the scalar 1 and overlay values the scalar 2, so that a
\* value in the result tells where it came from.
BaseScalar == Scalar(1)
OverScalar == Scalar(2)

ListsOf(x) == { [i \in 1..n |-> x] : n \in 0..MaxItems }

BaseInner ==
    { <<>>, << <<"k1", BaseScalar>> >>,
      << <<"k1", BaseScalar>>, <<"k2", BaseScalar>> >> }

OverInner ==
    { <<>>, << <<"k2", OverScalar>> >>,
      << <<"k2", OverScalar>>, <<"k1", OverScalar>> >> }

BaseValues ==
    {BaseScalar}
    \cup { List(xs) : xs \in ListsOf(BaseScalar) }
    \cup { Dict(es) : es \in BaseInner }
    \cup { CallSpec(<<"a">>, <<>>, es) : es \in BaseInner }
    \cup { CallSpec(<<"a">>, <<BaseScalar>>,
                    << <<"k2", Dict(<< <<"k1", BaseScalar>> >>)>> >>) }
    \cup { ExtendSpec(<<BaseScalar>>), PatchSpec(<< <<"k1", BaseScalar>> >>) }

OverValues ==
    {OverScalar}
    \cup { List(xs) : xs \in ListsOf(OverScalar) }
    \cup { Dict(es) : es \in OverInner }
    \cup { Dict(<< <<"k1", PatchSpec(<<>>)>> >>),
           Dict(<< <<"k1", ExtendSpec(<<OverScalar>>)>> >>),
           Dict(<< <<"k2", Dict(<< <<"k2", OverScalar>> >>)>> >>) }
    \cup { ExtendSpec(xs) : xs \in ListsOf(OverScalar) }
    \cup { PatchSpec(es) : es \in OverInner }
    \cup { CallSpec(<<"b">>, <<>>, <<>>) }

\* The mappings with distinct keys from KeyNames and values from V.
MappingsOver(V) ==
    { es \in UNION { [1..n -> KeyNames \X V] : n \in 0..Cardinality(KeyNames) } :
        \A i, j \in DOMAIN es : i # j => es[i][1] # es[j][1] }

InitMerge ==
    /\ policy = SecurityPolicy({}, {}, {}, NoneArg, FALSE)
    /\ last = NoCall
    /\ IdleGate
    /\ mbase \in MappingsOver(BaseValues)
    /\ mover \in MappingsOver(OverValues)
    /\ mres = [op |-> "none"]

DeepMerge ==
    /\ mres.op = "none"
    /\ mres' = [op |-> "deep_merge", out |-> deep_merge(mbase, mover)]
    /\ UNCHANGED <<mbase, mover, secVars, gateVars>>

NextMerge == DeepMerge

SpecMerge == InitMerge /\ [][NextMerge]_vars

----------------------------------------------------------------------------
(* SpecEnv: the !env tag constructor (tags.py), called by the loader while  *)
(* it parses a document                                                     *)

\* The variables the process environment may hold, and the value of each.
EnvNames == { <<"a">>, <<"a", "b">> }
EnvValue == <<"v">>
DefaultValue == <<"d">>

Environs ==
    { [n \in Values |-> IF n \in set THEN EnvValue ELSE NoValue] :
        set \in SUBSET EnvNames }

\* The nodes an !env tag may sit on: a scalar naming the variable, a mapping
\* with var or name and an optional default, or a sequence.
EnvNodes ==
    { [kind |-> "scalar", var |-> n, name |-> NoValue, default |-> NoValue] :
        n \in Values }
    \cup
    { [kind |-> "mapping", var |-> v, name |-> n, default |-> d] :
        v \in Values \cup {NoValue}, n \in {NoValue, <<"a">>},
        d \in {NoValue, DefaultValue} }
    \cup
    { [kind |-> "sequence", var |-> NoValue, name |-> NoValue, default |-> NoValue] }

Falsy(x) == x = NoValue \/ x = <<>>

\* os.environ.get(var, default)
EnvironGet(var, default) ==
    IF var \in DOMAIN environ /\ environ[var] # NoValue THEN environ[var] ELSE default

\* construct_env(loader, node): the value the tag becomes, or the error
\* raised, with the reads of the environment it made.  It consults no policy.
construct_env(node) ==
    IF node.kind = "scalar"
    THEN LET var == node.var
             val == EnvironGet(var, NoValue)
         IN  [ status |-> IF val = NoValue THEN "ResolutionError" ELSE "returned",
               var |-> var, val |-> val,
               log |-> << Event("environ.get", var, val) >> ]
    ELSE IF node.kind = "mapping"
    THEN LET var == IF Falsy(node.var) THEN node.name ELSE node.var
             val == EnvironGet(var, node.default)
         IN  [ status |-> IF val = NoValue THEN "ResolutionError" ELSE "returned",
               var |-> var, val |-> val,
               log |-> << Event("environ.get", var, val) >> ]
    ELSE [ status |-> "TagError", var |-> NoValue, val |-> NoValue, log |-> <<>> ]

EnvPolicies ==
    { p \in Policies : p.allowed_imports = {} /\ p.allowed_include_paths = {} }

InitEnv ==
    /\ policy \in EnvPolicies
    /\ last = NoCall
    /\ environ \in Environs
    /\ files = [n \in {} |-> NoValue]
    /\ ctx = [n \in {} |-> NoValue]
    /\ log = <<>>
    /\ outcome = [op |-> "none"]
    /\ IdleMerge
    /\ stack = <<>>
    /\ heap = NoHeap

ConstructEnv ==
    \E node \in EnvNodes :
        LET r == construct_env(node) IN
        /\ log' = r.log
        /\ outcome' = [op |-> "construct_env", status |-> r.status,
                       var |-> r.var, val |-> r.val]
        /\ UNCHANGED <<environ, files, ctx, secVars, mergeVars, stack, heap>>

NextEnv == ConstructEnv

SpecEnv == InitEnv /\ [][NextEnv]_vars

----------------------------------------------------------------------------
(* The resolver (resolve.py): values, context lookup, imports and calls     *)

Str(s) == [t |-> "str", v |-> s]
ImportSpec(path) == [t |-> "import", path |-> path]
\* What importing a dotted path yields; a bound attribute of an object; what
\* calling a callable yields.  None of them is a str, a number or a dict.
Symbol(path) == [t |-> "symbol", path |-> path]
Method(obj, name) == [t |-> "method", of |-> obj, name |-> name]
Instance(fn, args, kwargs) ==
    [t |-> "instance", of |-> fn, args |-> args, kwargs |-> kwargs]

\* What a resolver method hands back: a value or a raised exception, with
\* the context and the events as the method left them.
Ok(v, c, l) == [ok |-> TRUE, val |-> v, ctx |-> c, log |-> l]
Err(kind, c, l) == [ok |-> FALSE, err |-> kind, ctx |-> c, log |-> l]
Raise(kind) == [ok |-> FALSE, err |-> kind]

\* A result named once and used by what follows: K at the value v.
Let(v, K(_)) == K(v)

\* What follows a call that may raise: the raised exception as it is, else K
\* at what the call returned.
Then(r, K(_)) == IF r.ok THEN K(r) ELSE r

Letter ==
    { "a", "b", "c", "d", "e", "f", "g", "h", "i", "j", "k", "l", "m",
      "n", "o", "p", "q", "r", "s", "t", "u", "v", "w", "x", "y", "z",
      "A", "B", "C", "D", "E", "F", "G", "H", "I", "J", "K", "L", "M",
      "N", "O", "P", "Q", "R", "S", "T", "U", "V", "W", "X", "Y", "Z" }
Digit == { "0", "1", "2", "3", "4", "5", "6", "7", "8", "9" }
IdentStart == Letter \cup {"_"}
IdentChar == IdentStart \cup Digit

Has(s, c) == \E i \in 1..Len(s) : s[i] = c

\* str.find and str.rfind, counting from 1; 0 when c is absent.
FirstIndex(s, c) ==
    IF Has(s, c)
    THEN CHOOSE i \in 1..Len(s) : s[i] = c /\ \A j \in 1..(i - 1) : s[j] # c
    ELSE 0

LastIndex(s, c) ==
    IF Has(s, c)
    THEN CHOOSE i \in 1..Len(s) : s[i] = c /\ \A j \in (i + 1)..Len(s) : s[j] # c
    ELSE 0

From(s, i) == SubSeq(s, i, Len(s))

\* s.split(c)
RECURSIVE split(_, _)
split(s, c) ==
    LET i == FirstIndex(s, c) IN
    IF i = 0 THEN << s >>
    ELSE << SubSeq(s, 1, i - 1) >> \o split(From(s, i + 1), c)

\* s.strip(), for blanks
RECURSIVE strip(_)
strip(s) ==
    IF s # <<>> /\ Head(s) = " " THEN strip(Tail(s))
    ELSE IF s # <<>> /\ s[Len(s)] = " " THEN strip(SubSeq(s, 1, Len(s) - 1))
    ELSE s

\* How many elements of s, from index i on, lie in S without a break.
RECURSIVE RunLen(_, _, _)
RunLen(s, i, S) ==
    IF i <= Len(s) /\ s[i] \in S THEN 1 + RunLen(s, i + 1, S) ELSE 0

DigitChars == << "0", "1", "2", "3", "4", "5", "6", "7", "8", "9" >>

RECURSIVE Decimal(_)
Decimal(n) ==
    IF n < 10 THEN << DigitChars[n + 1] >>
    ELSE Decimal(n \div 10) \o << DigitChars[(n % 10) + 1] >>

\* The name an object shows in its repr and in the events.
RECURSIVE NameOf(_)
NameOf(v) ==
    CASE v.t = "symbol" -> v.path
      [] v.t = "method" -> NameOf(v.of) \o <<".">> \o v.name
      [] v.t = "instance" -> NameOf(v.of) \o <<"(", ")">>
      [] v.t = "str" -> v.v
      [] v.t = "scalar" -> Decimal(v.v)
      [] v.t = "none" -> <<"N", "o", "n", "e">>

\* str(value), for the values a context holds here.
str(v) ==
    CASE v.t = "str" -> v.v
      [] v.t = "scalar" ->
            IF v.v < 0 THEN <<"-">> \o Decimal(0 - v.v) ELSE Decimal(v.v)
      [] v.t = "none" -> <<"N", "o", "n", "e">>
      [] v.t = "bool" ->
            IF v.v THEN <<"T", "r", "u", "e">> ELSE <<"F", "a", "l", "s", "e">>
      [] v.t \in {"symbol", "method", "instance"} ->
            <<"<">> \o NameOf(v) \o <<">">>

\* The attributes the objects of this model have.
Attributes == { <<"b">> }

\* getattr(obj, name)
getattr(obj, name) ==
    IF obj.t \in {"symbol", "instance"} /\ name \in Attributes
    THEN Returned(Method(obj, name))
    ELSE Raise("AttributeError")

\* The two ResolutionErrors of Resolver._get, told apart by their messages:
\* f"Unknown variable '{parts[0]}'" and f"Failed to resolve '{part}' in ...".
UnknownVariable == "ResolutionError: Unknown variable"
FailedToResolve == "ResolutionError: Failed to resolve"

\* Resolver._get: the traversal of parts[1:] from obj.
RECURSIVE _get_parts(_, _)
_get_parts(obj, parts) ==
    IF parts = <<>> THEN Returned(obj)
    ELSE LET step == IF obj.t = "dict"
                     THEN IF HasKey(obj.entries, Head(parts))
                          THEN Returned(Get(obj.entries, Head(parts)))
                          ELSE Raise("KeyError")
                     ELSE getattr(obj, Head(parts))
         IN  IF step.ok THEN _get_parts(step.val, Tail(parts))
             ELSE Raise(FailedToResolve)

\* Resolver._get(path) against the context c.
_get(c, path) ==
    IF path \in DOMAIN c THEN Returned(c[path])
    ELSE Let(split(path, "."), LAMBDA parts :
         IF parts[1] \notin DOMAIN c \/ c[parts[1]] = None
         THEN Raise(UnknownVariable)
         ELSE _get_parts(c[parts[1]], Tail(parts)))

\* path.rpartition("."): module, separator, name.
rpartition(path) ==
    LET i == LastIndex(path, ".") IN
    IF i = 0 THEN << <<>>, <<>>, path >>
    ELSE << SubSeq(path, 1, i - 1), <<".">>, From(path, i + 1) >>

\* The modules importlib finds, and the attributes of each.
Builtins == << "builtins" >>
ModuleAttrs ==
    [ m \in { Builtins, <<"a">> } |->
        IF m = Builtins THEN { <<"a", "b">>, <<"b">> } ELSE { <<"b">>, <<"a">> } ]

\* _import_attr(path)
_import_attr(path) ==
    Let(rpartition(path), LAMBDA p :
    LET module == p[1]
        name == p[3]
        mod == IF module = <<>> THEN Builtins ELSE module
        attr == IF name = <<>> THEN module ELSE name
    IN  IF mod \notin DOMAIN ModuleAttrs THEN Raise("ImportError")
        ELSE IF attr \notin ModuleAttrs[mod] THEN Raise("AttributeError")
        ELSE Returned(Symbol(path)))

\* The call _import_attr(path) as an event of the running operation.
Import(path, c, l) ==
    Let(_import_attr(path), LAMBDA r :
    IF r.ok THEN Ok(r.val, c, Append(l, Event("import", path, "imported")))
    ELSE Err(r.err, c, Append(l, Event("import", path, r.err))))

\* The numbers of positional arguments a callable takes; a value that is not
\* callable takes none at all.
Arity(fn) ==
    IF fn.t = "method" THEN {0, 1}
    ELSE IF fn.t # "symbol" THEN {}
    ELSE IF fn.path = <<"a", ".", "b">> THEN {0, 1}
    ELSE IF fn.path = <<"a", "b">> THEN {1}
    ELSE {0, 1, 2}

\* fn(*args, **kwargs)
Call(fn, args, kwargs) ==
    IF Len(args) \in Arity(fn) THEN Returned(Instance(fn, args, kwargs))
    ELSE Raise("TypeError")

\* _apply_call(fn, args, kwargs)
_apply_call(fn, args, kwargs, c, l) ==
    Let(Call(fn, args, kwargs), LAMBDA r1 :
    Let(Append(l, Event("invoke", NameOf(fn),
                        IF r1.ok THEN "returned" ELSE r1.err)), LAMBDA l1 :
    IF r1.ok THEN Ok(r1.val, c, l1)
    ELSE IF Len(args) > 1
    THEN Let(Call(fn, << List(<< List(args) >>) >>, kwargs), LAMBDA r2 :
         IF r2.ok
         THEN Ok(r2.val, c, Append(l1, Event("invoke", NameOf(fn), "returned")))
         ELSE Err(r2.err, c, Append(l1, Event("invoke", NameOf(fn), r2.err))))
    ELSE Err(r1.err, c, l1)))

\* The flag a CallSpec carries: its path holds $ placeholders.
is_interpolated(node) == Has(node.path, "$")

\* Resolver._resolve_direct_callable(path)
_resolve_direct_callable(path, c, l) ==
    IF check_import(policy, path) = Deny
    THEN Err(Deny, c, Append(l, Event("check_import", path, Deny)))
    ELSE Import(path, c, Append(l, Event("check_import", path, Permit)))

_is_single_variable(path) ==
    /\ path # <<>> /\ Head(path) = "$"
    /\ ~Has(path, ".")

_is_method_call(path) ==
    /\ path # <<>> /\ Head(path) = "$"
    /\ Has(path, ".")
    /\ ~Has(Tail(path), "$")

\* Resolver._resolve_single_variable(path)
_resolve_single_variable(path, c, l) ==
    Let(_get(c, Tail(path)), LAMBDA var_value :
    IF ~var_value.ok THEN Err(var_value.err, c, l)
    ELSE IF var_value.val.t = "str"
    THEN IF check_import(policy, var_value.val.v) = Deny
         THEN Err(Deny, c,
                  Append(l, Event("check_import", var_value.val.v, Deny)))
         ELSE Import(var_value.val.v, c,
                     Append(l, Event("check_import", var_value.val.v, Permit)))
    ELSE Ok(var_value.val, c, l))

\* Resolver._resolve_method_call(path)
_resolve_method_call(path, c, l) ==
    Let(FirstIndex(Tail(path), "."), LAMBDA i :
    LET obj_name == SubSeq(Tail(path), 1, i - 1)
        method_name == From(Tail(path), i + 1)
    IN  Let(_get(c, obj_name), LAMBDA obj :
        IF ~obj.ok THEN Err(obj.err, c, l)
        ELSE Let(getattr(obj.val, method_name), LAMBDA m :
             IF m.ok THEN Ok(m.val, c, l) ELSE Err(m.err, c, l))))

\* re.sub(r"\$([a-zA-Z_][a-zA-Z0-9_]*)", lambda m: str(self._get(m.group(1))), s)
RECURSIVE sub_dollar(_, _)
sub_dollar(s, c) ==
    IF s = <<>> THEN Returned(<<>>)
    ELSE IF Head(s) = "$" /\ Len(s) >= 2 /\ s[2] \in IdentStart
    THEN Let(RunLen(s, 2, IdentChar), LAMBDA n :
         Then(_get(c, SubSeq(s, 2, n + 1)), LAMBDA value :
         Then(sub_dollar(From(s, n + 2), c), LAMBDA rest :
         Returned(str(value.val) \o rest.val))))
    ELSE Then(sub_dollar(Tail(s), c), LAMBDA rest :
         Returned(<< Head(s) >> \o rest.val))

\* As _resolve_variable_interpolation, but the policy is asked about the
\* template, not about the path the template becomes.
_resolve_variable_interpolation_template(path_template, c, l) ==
    Let(sub_dollar(path_template, c), LAMBDA interpolated_path :
    IF ~interpolated_path.ok THEN Err(interpolated_path.err, c, l)
    ELSE IF check_import(policy, path_template) = Deny
    THEN Err(Deny, c, Append(l, Event("check_import", path_template, Deny)))
    ELSE Import(interpolated_path.val, c,
                Append(l, Event("check_import", path_template, Permit))))

\* Resolver._resolve_variable_interpolation(path_template)
_resolve_variable_interpolation(path_template, c, l) ==
    Let(sub_dollar(path_template, c), LAMBDA interpolated_path :
    IF ~interpolated_path.ok THEN Err(interpolated_path.err, c, l)
    ELSE IF check_import(policy, interpolated_path.val) = Deny
    THEN Err(Deny, c,
             Append(l, Event("check_import", interpolated_path.val, Deny)))
    ELSE Import(interpolated_path.val, c,
                Append(l, Event("check_import", interpolated_path.val, Permit))))

\* Resolver._resolve_interpolated_callable(path_template)
_resolve_interpolated_callable(path_template, c, l) ==
    IF _is_single_variable(path_template)
    THEN _resolve_single_variable(path_template, c, l)
    ELSE IF _is_method_call(path_template)
    THEN _resolve_method_call(path_template, c, l)
    ELSE _resolve_variable_interpolation(path_template, c, l)

----------------------------------------------------------------------------
(* The expression evaluator (expressions.py) *)

\* sub in s
Contains(s, sub) ==
    \E i \in 1..(Len(s) - Len(sub) + 1) : SubSeq(s, i, i + Len(sub) - 1) = sub

\* s.startswith(prefix)
StartsWith(s, prefix) ==
    Len(s) >= Len(prefix) /\ SubSeq(s, 1, Len(prefix)) = prefix

\* s.replace(old, new), old not empty
RECURSIVE replace(_, _, _)
replace(s, old, new) ==
    IF s = <<>> THEN <<>>
    ELSE IF StartsWith(s, old) THEN new \o replace(From(s, Len(old) + 1), old, new)
    ELSE << Head(s) >> \o replace(Tail(s), old, new)

MATH_OPERATORS ==
    { <<"+">>, <<"-">>, <<"*">>, <<"/">>, <<"/", "/">>, <<"%">>, <<"*", "*">>,
      <<"(">>, <<")">>, <<"&">>, <<"|">>, <<"^">>, <<"~">>, <<"<", "<">>,
      <<">", ">">> }
COMPARISON_OPERATORS ==
    { <<"=", "=">>, <<"!", "=">>, <<"<", "=">>, <<">", "=">>, <<"<">>, <<">">> }
LOGICAL_OPERATORS ==
    { <<"a", "n", "d">>, <<"o", "r">>, <<"n", "o", "t">>, <<"i", "f">>,
      <<"e", "l", "s", "e">> }

_has_operators(expression, operators) ==
    \E op \in operators : Contains(expression, op)

\* re.search(rf"\b{op}\b", expression)
SearchWord(s, w) ==
    \E i \in 1..(Len(s) - Len(w) + 1) :
        /\ SubSeq(s, i, i + Len(w) - 1) = w
        /\ i = 1 \/ s[i - 1] \notin IdentChar
        /\ i + Len(w) > Len(s) \/ s[i + Len(w)] \notin IdentChar

_has_logical_operators(expression) ==
    \E op \in LOGICAL_OPERATORS : SearchWord(expression, op)

is_expression(expression) ==
    \/ _has_operators(expression, MATH_OPERATORS \cup COMPARISON_OPERATORS)
    \/ _has_logical_operators(expression)

_is_math_operation(expression) ==
    /\ _has_operators(expression, MATH_OPERATORS)
    /\ ~_has_operators(expression, COMPARISON_OPERATORS)
    /\ ~_has_logical_operators(expression)

kwlist ==
    { <<"F", "a", "l", "s", "e">>,
      <<"N", "o", "n", "e">>,
      <<"T", "r", "u", "e">>,
      <<"a", "n", "d">>,
      <<"a", "s">>,
      <<"a", "s", "s", "e", "r", "t">>,
      <<"a", "s", "y", "n", "c">>,
      <<"a", "w", "a", "i", "t">>,
      <<"b", "r", "e", "a", "k">>,
      <<"c", "l", "a", "s", "s">>,
      <<"c", "o", "n", "t", "i", "n", "u", "e">>,
      <<"d", "e", "f">>,
      <<"d", "e", "l">>,
      <<"e", "l", "i", "f">>,
      <<"e", "l", "s", "e">>,
      <<"e", "x", "c", "e", "p", "t">>,
      <<"f", "i", "n", "a", "l", "l", "y">>,
      <<"f", "o", "r">>,
      <<"f", "r", "o", "m">>,
      <<"g", "l", "o", "b", "a", "l">>,
      <<"i", "f">>,
      <<"i", "m", "p", "o", "r", "t">>,
      <<"i", "n">>,
      <<"i", "s">>,
      <<"l", "a", "m", "b", "d", "a">>,
      <<"n", "o", "n", "l", "o", "c", "a", "l">>,
      <<"n", "o", "t">>,
      <<"o", "r">>,
      <<"p", "a", "s", "s">>,
      <<"r", "a", "i", "s", "e">>,
      <<"r", "e", "t", "u", "r", "n">>,
      <<"t", "r", "y">>,
      <<"w", "h", "i", "l", "e">>,
      <<"w", "i", "t", "h">>,
      <<"y", "i", "e", "l", "d">> }

\* re.sub(r'"[^"]*"|\'[^\']*\'', "", expression)
RECURSIVE strip_strings(_)
strip_strings(s) ==
    IF s = <<>> THEN <<>>
    ELSE IF Head(s) \in {"\"", "'"} /\ Has(Tail(s), Head(s))
    THEN strip_strings(From(s, FirstIndex(Tail(s), Head(s)) + 2))
    ELSE << Head(s) >> \o strip_strings(Tail(s))

\* The trailing dots of the n elements of s from index i on.
RECURSIVE TrailingDots(_, _, _)
TrailingDots(s, i, n) ==
    IF n > 0 /\ s[i + n - 1] = "." THEN 1 + TrailingDots(s, i, n - 1) ELSE 0

\* re.compile(r"\b[a-zA-Z_][a-zA-Z0-9_.]*\b").findall(s), from index i on
RECURSIVE findall_words(_, _)
findall_words(s, i) ==
    IF i > Len(s) THEN <<>>
    ELSE IF s[i] \in IdentStart /\ (i = 1 \/ s[i - 1] \notin IdentChar)
    THEN Let(RunLen(s, i, IdentChar \cup {"."}), LAMBDA run :
         Let(run - TrailingDots(s, i, run), LAMBDA n :
         << SubSeq(s, i, i + n - 1) >> \o findall_words(s, i + n)))
    ELSE findall_words(s, i + 1)

_extract_variables(expression) ==
    SelectSeq(findall_words(strip_strings(expression), 1),
              LAMBDA word : word \notin kwlist)

_should_validate_as_numeric(var_name, variables_found) ==
    ~\E i \in 1..Len(variables_found) :
        StartsWith(variables_found[i], var_name \o <<".">>)

\* _get_safe: the safe name, and the expression with the name replaced
_get_safe(expression, var_name) ==
    Let(replace(var_name, <<".">>, <<"_">>), LAMBDA safe_name :
    << safe_name,
       IF safe_name # var_name THEN replace(expression, var_name, safe_name)
       ELSE expression >>)

\* The messages of the ExpressionErrors that are raised.
DivisionByZero == "ExpressionError: Division by zero in expression"
InvalidExpression == "ExpressionError: Invalid expression"
NonNumeric == "ExpressionError: Cannot use non-numeric value"

\* _validate_variable: TRUE when it raises ExpressionError
_validate_variable(var_name, value, variables_found) ==
    /\ Has(var_name, ".") \/ _should_validate_as_numeric(var_name, variables_found)
    /\ value.t \notin {"scalar", "bool", "float"}

\* ExpressionEvaluator._get_safe_expr_with_ns: the loop over variables_found
\* from index i on, with the expression and the namespace built so far.
RECURSIVE _get_safe_expr_with_ns_from(_, _, _, _, _, _)
_get_safe_expr_with_ns_from(found, i, safe_expression, namespace, is_math, c) ==
    IF i > Len(found)
    THEN [ok |-> TRUE, expr |-> safe_expression, ns |-> namespace]
    ELSE Let(_get(c, found[i]), LAMBDA value :
         IF ~value.ok THEN Raise(value.err)
         ELSE IF is_math /\ _validate_variable(found[i], value.val, found)
         THEN Raise(NonNumeric)
         ELSE Let(_get_safe(safe_expression, found[i]), LAMBDA safe :
              _get_safe_expr_with_ns_from(
                  found, i + 1, safe[2],
                  [ n \in DOMAIN namespace \cup {safe[1]} |->
                      IF n = safe[1] THEN value.val ELSE namespace[n] ],
                  is_math, c)))

_get_safe_expr_with_ns(expression, c) ==
    _get_safe_expr_with_ns_from(_extract_variables(expression), 1, expression,
                                [n \in {} |-> None],
                                _is_math_operation(expression), c)

\* A decimal literal of Python: digits only, read in base ten.
RECURSIVE IntOf(_)
IntOf(s) ==
    IF s = <<>> THEN 0
    ELSE 10 * IntOf(SubSeq(s, 1, Len(s) - 1))
         + (CHOOSE d \in 0..9 : DigitChars[d + 1] = s[Len(s)])

IsLiteral(s) == s # <<>> /\ \A i \in 1..Len(s) : s[i] \in Digit

IsName(s) ==
    /\ s # <<>> /\ s[1] \in IdentStart
    /\ \A i \in 1..Len(s) : s[i] \in IdentChar

\* The values eval yields besides numbers and strings.
Bool(b) == [t |-> "bool", v |-> b]
Float(num, den) == [t |-> "float", num |-> num, den |-> den]

RECURSIVE gcd(_, _)
gcd(a, b) == IF b = 0 THEN a ELSE gcd(b, a % b)

\* bool(value)
truthy(value) ==
    CASE value.t = "scalar" -> value.v # 0
      [] value.t = "bool" -> value.v
      [] value.t = "str" -> value.v # <<>>
      [] value.t = "none" -> FALSE
      [] value.t = "float" -> value.num # 0
      [] value.t = "dict" -> value.entries # <<>>
      [] OTHER -> TRUE

QuoteChars == { "'", "\"" }

\* The element i of s lies inside a string literal.
InQuotes(s, i) ==
    Cardinality({ j \in 1..(i - 1) : s[j] \in QuoteChars }) % 2 = 1

\* Where the operator op occurs in s outside the string literals; as a word
\* of its own when word is set.
Occurrences(s, op, word) ==
    { i \in 1..(Len(s) - Len(op) + 1) :
        /\ SubSeq(s, i, i + Len(op) - 1) = op
        /\ ~InQuotes(s, i)
        /\ word => /\ i = 1 \/ s[i - 1] \notin IdentChar
                   /\ i + Len(op) > Len(s) \/ s[i + Len(op)] \notin IdentChar }

Min(S) == CHOOSE i \in S : \A j \in S : i <= j
Max(S) == CHOOSE i \in S : \A j \in S : i >= j

FirstOp(s, op, word) ==
    IF Occurrences(s, op, word) = {} THEN 0 ELSE Min(Occurrences(s, op, word))
LastOp(s, op, word) ==
    IF Occurrences(s, op, word) = {} THEN 0 ELSE Max(Occurrences(s, op, word))

IfWord == <<"i", "f">>
ElseWord == <<"e", "l", "s", "e">>
TrueWord == <<"T", "r", "u", "e">>
FalseWord == <<"F", "a", "l", "s", "e">>

IsQuoted(s) ==
    /\ Len(s) >= 2
    /\ s[1] \in QuoteChars
    /\ s[Len(s)] = s[1]
    /\ \A i \in 2..(Len(s) - 1) : s[i] \notin QuoteChars

\* A name, or the attribute of a name: identifiers between single dots.
IsDotted(s) ==
    /\ s # <<>>
    /\ \A i \in 1..Len(split(s, ".")) : IsName(split(s, ".")[i])

\* An operand: a decimal literal, a string literal, True, False or a name.
IsAtom(s) ==
    Let(strip(s), LAMBDA a : IsLiteral(a) \/ IsQuoted(a) \/ IsDotted(a))

\* Python's grammar, for the expressions of this model: the conditional
\* expression A if C else B, the comparison ==, the sum of terms, the
\* quotient / or // of operands, without parentheses.
RECURSIVE well_formed_term(_)
well_formed_term(s) ==
    Let(LastOp(s, <<"/">>, FALSE), LAMBDA i :
    IF i = 0 THEN IsAtom(s)
    ELSE /\ IsAtom(From(s, i + 1))
         /\ well_formed_term(SubSeq(s, 1, IF i > 1 /\ s[i - 1] = "/"
                                          THEN i - 2 ELSE i - 1)))

RECURSIVE well_formed_sum(_)
well_formed_sum(s) ==
    Let(LastOp(s, <<"+">>, FALSE), LAMBDA i :
    IF i = 0 THEN well_formed_term(s)
    ELSE /\ well_formed_term(From(s, i + 1))
         /\ well_formed_sum(SubSeq(s, 1, i - 1)))

well_formed_comparison(s) ==
    Let(FirstOp(s, <<"=", "=">>, FALSE), LAMBDA i :
    IF i = 0 THEN well_formed_sum(s)
    ELSE /\ well_formed_sum(SubSeq(s, 1, i - 1))
         /\ well_formed_sum(From(s, i + 2)))

RECURSIVE well_formed(_)
well_formed(s) ==
    Let(FirstOp(s, IfWord, TRUE), LAMBDA i :
    IF i = 0 THEN well_formed_comparison(s)
    ELSE Let(From(s, i + 2), LAMBDA rest :
         Let(FirstOp(rest, ElseWord, TRUE), LAMBDA j :
         /\ j > 0
         /\ well_formed_comparison(SubSeq(s, 1, i - 1))
         /\ well_formed_comparison(SubSeq(rest, 1, j - 1))
         /\ well_formed(From(rest, j + 4)))))

\* An operand's value: a name is looked up in the namespace.
eval_atom(s, namespace) ==
    Let(strip(s), LAMBDA a :
    IF IsLiteral(a) THEN Returned(Scalar(IntOf(a)))
    ELSE IF IsQuoted(a) THEN Returned(Str(SubSeq(a, 2, Len(a) - 1)))
    ELSE IF a = TrueWord THEN Returned(Bool(TRUE))
    ELSE IF a = FalseWord THEN Returned(Bool(FALSE))
    ELSE IF a \in DOMAIN namespace THEN Returned(namespace[a])
    ELSE Raise("NameError"))

\* x / y and x // y
divide(x, y, floor) ==
    IF x.t # "scalar" \/ y.t # "scalar" THEN Raise("TypeError")
    ELSE IF y.v = 0 THEN Raise("ZeroDivisionError")
    ELSE IF floor THEN Returned(Scalar(x.v \div y.v))
    ELSE Returned(Float(x.v \div gcd(x.v, y.v), y.v \div gcd(x.v, y.v)))

\* x + y
add(x, y) ==
    IF x.t = "scalar" /\ y.t = "scalar" THEN Returned(Scalar(x.v + y.v))
    ELSE IF x.t = "str" /\ y.t = "str" THEN Returned(Str(x.v \o y.v))
    ELSE Raise("TypeError")

RECURSIVE eval_term(_, _)
eval_term(s, namespace) ==
    Let(LastOp(s, <<"/">>, FALSE), LAMBDA i :
    IF i = 0 THEN eval_atom(s, namespace)
    ELSE Let(i > 1 /\ s[i - 1] = "/", LAMBDA floor :
         Then(eval_term(SubSeq(s, 1, IF floor THEN i - 2 ELSE i - 1), namespace),
              LAMBDA x :
         Then(eval_atom(From(s, i + 1), namespace), LAMBDA y :
         divide(x.val, y.val, floor)))))

RECURSIVE eval_sum(_, _)
eval_sum(s, namespace) ==
    Let(LastOp(s, <<"+">>, FALSE), LAMBDA i :
    IF i = 0 THEN eval_term(s, namespace)
    ELSE Then(eval_sum(SubSeq(s, 1, i - 1), namespace), LAMBDA x :
         Then(eval_term(From(s, i + 1), namespace), LAMBDA y :
         add(x.val, y.val))))

eval_comparison(s, namespace) ==
    Let(FirstOp(s, <<"=", "=">>, FALSE), LAMBDA i :
    IF i = 0 THEN eval_sum(s, namespace)
    ELSE Then(eval_sum(SubSeq(s, 1, i - 1), namespace), LAMBDA x :
         Then(eval_sum(From(s, i + 2), namespace), LAMBDA y :
         Returned(Bool(x.val.t = y.val.t /\ x.val = y.val)))))

\* The conditional expression: the condition first, then the branch it
\* selects, and that branch only.
RECURSIVE eval_test(_, _)
eval_test(s, namespace) ==
    Let(FirstOp(s, IfWord, TRUE), LAMBDA i :
    IF i = 0 THEN eval_comparison(s, namespace)
    ELSE Let(From(s, i + 2), LAMBDA rest :
         Let(FirstOp(rest, ElseWord, TRUE), LAMBDA j :
         Then(eval_comparison(SubSeq(rest, 1, j - 1), namespace), LAMBDA cond :
         IF truthy(cond.val)
         THEN eval_comparison(SubSeq(s, 1, i - 1), namespace)
         ELSE eval_test(From(rest, j + 4), namespace)))))

\* eval(safe_expression, {"__builtins__": {}}, namespace): the expression is
\* compiled as a whole, then evaluated.
eval(safe_expression, namespace) ==
    IF ~well_formed(safe_expression) THEN Raise("SyntaxError")
    ELSE eval_test(safe_expression, namespace)

\* ExpressionEvaluator.evaluate(expression): it asks no policy.
evaluate(expression, c, l) ==
    Let(_get_safe_expr_with_ns(expression, c), LAMBDA prepared :
    IF ~prepared.ok
    THEN Err(prepared.err, c, Append(l, Event("evaluate", expression, prepared.err)))
    ELSE Let(eval(prepared.expr, prepared.ns), LAMBDA r :
         IF ~r.ok
         THEN Let(IF r.err = "ZeroDivisionError" THEN DivisionByZero
                  ELSE InvalidExpression, LAMBDA e :
              Err(e, c, Append(l, Event("evaluate", expression, e))))
         ELSE Ok(r.val, c, Append(l, Event("evaluate", expression, "returned")))))

----------------------------------------------------------------------------
(* Paths, files and the include-family nodes *)

IncludeSpec(path, base) == [t |-> "include", path |-> path, _base_path |-> base]
IncludeFromSpec(path, base) ==
    [t |-> "include_from", path |-> path, _base_path |-> base]
IncludeAtSpec(path) == [t |-> "include_at", path |-> path]

\* The key of the traditional include list.
IncludeKey == << "include!" >>

\* os.path.isabs(p)
isabs(p) == p # <<>> /\ Head(p) = "/"

RECURSIVE rstrip_slash(_)
rstrip_slash(p) ==
    IF p # <<>> /\ p[Len(p)] = "/" THEN rstrip_slash(SubSeq(p, 1, Len(p) - 1))
    ELSE p

\* os.path.dirname(p)
dirname(p) ==
    LET head == SubSeq(p, 1, LastIndex(p, "/")) IN
    IF head # <<>> /\ \E j \in 1..Len(head) : head[j] # "/"
    THEN rstrip_slash(head)
    ELSE head

\* os.path.join(a, b)
join(a, b) ==
    IF isabs(b) THEN b
    ELSE IF a = <<>> \/ a[Len(a)] = "/" THEN a \o b
    ELSE a \o <<"/">> \o b

\* include.set_base_paths(data, base_path); the stamped tree is the value.
RECURSIVE set_base_paths(_, _)
set_base_paths(data, base_path) ==
    IF data.t \in {"include", "include_from"}
    THEN [data EXCEPT !._base_path = base_path]
    ELSE IF data.t = "dict"
    THEN Dict([ i \in DOMAIN data.entries |->
                  << data.entries[i][1],
                     set_base_paths(data.entries[i][2], base_path) >> ])
    ELSE IF data.t = "list"
    THEN List([ i \in DOMAIN data.items |->
                  set_base_paths(data.items[i], base_path) ])
    ELSE data

\* include.load_raw(path) and merge._load_file(path): open the file and
\* parse it with the tag-aware loader.
load_raw(path) ==
    IF path \in DOMAIN files THEN Returned(files[path]) ELSE Raise("IncludeError")

_load_file(path) ==
    IF path \in DOMAIN files THEN Returned(files[path]) ELSE Raise("IncludeError")

\* The call open(path) as an event of the running operation.
Open(r, path, c, l) ==
    IF r.ok THEN Ok(r.val, c, Append(l, Event("open", path, "opened")))
    ELSE Err(r.err, c, Append(l, Event("open", path, r.err)))

\* dict.pop(key, None) as the mapping it leaves.
Without(d, k) == SelectSeq(d, LAMBDA e : e[1] # k)

\* raw.pop("include!", []): the entries of the list popped.
PopIncludes(raw) ==
    IF HasKey(raw, IncludeKey) THEN Get(raw, IncludeKey).items ELSE <<>>

\* deep_merge(a, b) called by the include pipeline
Merge(a, b, c, l) ==
    Let(deep_merge(a, b), LAMBDA r :
    IF r.ok THEN Ok(r.val, c, l) ELSE Err("MergeError", c, l))

(* include.py *)

\* include._load_include(entry, base_path, security_policy)
_load_include(entry, base_path, c, l) ==
    IF entry.t = "str"
    THEN Let(IF base_path # NoValue /\ ~isabs(entry.v)
             THEN join(dirname(base_path), entry.v) ELSE entry.v, LAMBDA p :
         IF check_include(policy, p) = Deny
         THEN Err(Deny, c, Append(l, Event("check_include", p, Deny)))
         ELSE Then(Open(load_raw(p), p, c,
                        Append(l, Event("check_include", p, Permit))), LAMBDA raw :
              Ok(set_base_paths(raw.val, p), raw.ctx, raw.log)))
    ELSE Err("IncludeError", c, l)

\* include.process_includes: the loop over incs from index i on.
RECURSIVE include_entries(_, _, _, _, _, _)
include_entries(incs, i, merged, base_path, c, l) ==
    IF i > Len(incs) THEN Ok(merged, c, l)
    ELSE Then(_load_include(incs[i], base_path, c, l), LAMBDA part :
         Then(Merge(merged, part.val.entries, part.ctx, part.log), LAMBDA m :
         include_entries(incs, i + 1, m.val, base_path, m.ctx, m.log)))

\* include.process_includes(raw, base_path, security_policy)
include_process_includes(raw, base_path, c, l) ==
    Then(include_entries(PopIncludes(raw.entries), 1, <<>>, base_path, c, l),
         LAMBDA merged :
    Then(Merge(merged.val, Without(raw.entries, IncludeKey),
               merged.ctx, merged.log), LAMBDA m :
    Ok(Dict(m.val), m.ctx, m.log)))

(* merge.py: the include pipeline load_config runs *)

\* f"${{{var}}}"
Placeholder(var) == <<"$", "{">> \o var \o <<"}">>

\* merge._resolve_path: the loop over context.items() from index i on.
RECURSIVE interpolate_context(_, _, _)
interpolate_context(path, context, i) ==
    IF i > Len(context) THEN path
    ELSE IF context[i][2].t # "include_at"
            /\ Contains(path, Placeholder(context[i][1]))
    THEN interpolate_context(
             replace(path, Placeholder(context[i][1]), str(context[i][2])),
             context, i + 1)
    ELSE interpolate_context(path, context, i + 1)

\* merge._resolve_path(path, base_path, context); no context is the empty one.
_resolve_path(path, base_path, context) ==
    Let(interpolate_context(path, context, 1), LAMBDA p :
    IF context # <<>> /\ Contains(p, <<"$", "{">>) THEN Raise("IncludeError")
    ELSE IF base_path # NoValue /\ base_path # <<>> /\ ~isabs(p)
    THEN Returned(join(dirname(base_path), p))
    ELSE Returned(p))

\* The keys an !include_at at key may bring in.
ExpectedKeys(key) ==
    IF Has(key, ",")
    THEN Let(split(key, ","), LAMBDA ks : { strip(ks[i]) : i \in 1..Len(ks) })
    ELSE { key }

\* merge._validate_include_at_keys: TRUE when it raises IncludeError
_validate_include_at_keys(included, expected_keys) ==
    \E k \in KeysOf(included) :
        k \notin expected_keys /\ ~(k # <<>> /\ Head(k) = "_")

_is_pkg_include(entry) ==
    /\ entry.t = "list"
    /\ Len(entry.items) = 2
    /\ entry.items[1].t = "str"
    /\ entry.items[2].t = "str"

\* pkg.__file__ of the modules importlib finds, and the directory name
\* _load_pkg_include looks under.
ModuleFile(m) == m \o << "/", "__init__.py" >>
ConfigurationDir == << "configuration" >>

\* merge._load_pkg_include(fn, prefix)
_load_pkg_include(fn, prefix, c, l) ==
    IF prefix \notin DOMAIN ModuleAttrs
    THEN Open(_load_file(fn), fn, c,
              Append(l, Event("import_module", prefix, "ImportError")))
    ELSE Let(join(join(dirname(ModuleFile(prefix)), ConfigurationDir), fn),
             LAMBDA cfg_path :
         Then(Open(_load_file(cfg_path), cfg_path, c,
                   Append(l, Event("import_module", prefix, "imported"))),
              LAMBDA found :
         Ok(Dict(<< <<prefix, found.val>> >>), found.ctx, found.log)))

RECURSIVE merge_process_includes(_, _, _, _)
RECURSIVE _load_traditional_include(_, _, _, _)
RECURSIVE traditional_entries(_, _, _, _, _, _)
RECURSIVE positional_entries(_, _, _, _, _, _)

\* merge._load_traditional_include(entry, base_path)
_load_traditional_include(entry, base_path, c, l) ==
    IF entry.t = "str"
    THEN Let(_resolve_path(entry.v, base_path, <<>>).val, LAMBDA path :
         Then(Open(_load_file(path), path, c, l), LAMBDA content :
         IF HasKey(content.val.entries, IncludeKey)
            \/ \E k \in KeysOf(content.val.entries) :
                   Get(content.val.entries, k).t = "include_at"
         THEN merge_process_includes(content.val, path, content.ctx, content.log)
         ELSE content))
    ELSE IF _is_pkg_include(entry)
    THEN _load_pkg_include(entry.items[1].v, entry.items[2].v, c, l)
    ELSE Err("IncludeError", c, l)

\* merge.process_includes: the loop over incs from index i on.
traditional_entries(incs, i, merged, base_path, c, l) ==
    IF i > Len(incs) THEN Ok(merged, c, l)
    ELSE Then(_load_traditional_include(incs[i], base_path, c, l), LAMBDA part :
         Then(Merge(merged, part.val.entries, part.ctx, part.log), LAMBDA m :
         traditional_entries(incs, i + 1, m.val, base_path, m.ctx, m.log)))

\* merge.process_includes: the loop over raw.items() from index i on.
positional_entries(raw, i, result, base_path, c, l) ==
    IF i > Len(raw) THEN Ok(result, c, l)
    ELSE IF raw[i][2].t # "include_at"
    THEN positional_entries(raw, i + 1, Put(result, raw[i][1], raw[i][2]),
                            base_path, c, l)
    ELSE Let(_resolve_path(raw[i][2].path, base_path, raw), LAMBDA path :
         IF ~path.ok THEN Err(path.err, c, l)
         ELSE Then(Open(_load_file(path.val), path.val, c, l), LAMBDA loaded :
              Then(merge_process_includes(loaded.val, path.val,
                                          loaded.ctx, loaded.log),
                   LAMBDA included :
              IF _validate_include_at_keys(included.val.entries,
                                           ExpectedKeys(raw[i][1]))
              THEN Err("IncludeError", included.ctx, included.log)
              ELSE Then(Merge(result, included.val.entries,
                              included.ctx, included.log), LAMBDA m :
                   positional_entries(raw, i + 1, m.val, base_path,
                                      m.ctx, m.log)))))

\* merge.process_includes(raw, base_path): it takes no policy.
merge_process_includes(raw, base_path, c, l) ==
    Then(traditional_entries(PopIncludes(raw.entries), 1, <<>>, base_path, c, l),
         LAMBDA merged :
    Then(positional_entries(Without(raw.entries, IncludeKey), 1, <<>>,
                            base_path, merged.ctx, merged.log), LAMBDA result :
    Then(Merge(merged.val, result.val, result.ctx, result.log), LAMBDA m :
    Ok(Dict(m.val), m.ctx, m.log))))

----------------------------------------------------------------------------
(* Resolver.resolve and its handlers *)

\* Resolver.VAR_RE.fullmatch(node): the whole string is one ${...} token.
VAR_RE_fullmatch(s) ==
    /\ Len(s) >= 4
    /\ s[1] = "$" /\ s[2] = "{" /\ s[Len(s)] = "}"
    /\ ~Has(SubSeq(s, 3, Len(s) - 1), "}")

\* Resolver.VAR_RE matches at the head of s: ${, one character or more that
\* is not }, and }.
VAR_RE_match(s) ==
    /\ Len(s) >= 4
    /\ s[1] = "$" /\ s[2] = "{"
    /\ FirstIndex(s, "}") >= 4

\* Resolver._resolve_var_to_string(expression)
_resolve_var_to_string(expression, c, l) ==
    IF is_expression(expression)
    THEN Then(evaluate(expression, c, l), LAMBDA r : Ok(str(r.val), c, r.log))
    ELSE Let(_get(c, expression), LAMBDA g :
         IF g.ok THEN Ok(str(g.val), c, l) ELSE Err(g.err, c, l))

\* Resolver.VAR_RE.sub(lambda m: self._resolve_var_to_string(m.group(1)), s)
RECURSIVE VAR_RE_sub(_, _, _)
VAR_RE_sub(s, c, l) ==
    IF s = <<>> THEN Ok(<<>>, c, l)
    ELSE IF VAR_RE_match(s)
    THEN Let(FirstIndex(s, "}"), LAMBDA k :
         Then(_resolve_var_to_string(SubSeq(s, 3, k - 1), c, l), LAMBDA token :
         Then(VAR_RE_sub(From(s, k + 1), c, token.log), LAMBDA rest :
         Ok(token.val \o rest.val, c, rest.log))))
    ELSE Then(VAR_RE_sub(Tail(s), c, l), LAMBDA rest :
         Ok(<< Head(s) >> \o rest.val, c, rest.log))

\* Resolver.resolve(node: str, path)
resolve_str(node, c, l) ==
    IF VAR_RE_fullmatch(node.v)
    THEN Let(SubSeq(node.v, 3, Len(node.v) - 1), LAMBDA expression :
         IF is_expression(expression)
         THEN IF check_expression(policy, expression) = Deny
              THEN Err(Deny, c,
                       Append(l, Event("check_expression", expression, Deny)))
              ELSE evaluate(expression, c,
                       Append(l, Event("check_expression", expression, Permit)))
         ELSE Let(_get(c, expression), LAMBDA g :
              IF g.ok THEN Ok(g.val, c, l) ELSE Err(g.err, c, l)))
    ELSE Then(VAR_RE_sub(node.v, c, l), LAMBDA r : Ok(Str(r.val), c, r.log))

\* Resolver.resolve(node: ImportSpec, path)
resolve_import(node, c, l) ==
    IF check_import(policy, node.path) = Deny
    THEN Err(Deny, c, Append(l, Event("check_import", node.path, Deny)))
    ELSE Import(node.path, c, Append(l, Event("check_import", node.path, Permit)))

\* The context with path bound to value: self.ctx[path] = value
Bind(c, path, value) ==
    [ p \in DOMAIN c \cup {path} |-> IF p = path THEN value ELSE c[p] ]

\* f"{path}.{key}" if path else key
Child(path, key) == IF path # <<>> THEN path \o <<".">> \o key ELSE key

\* ".".join(parts), parts not empty
RECURSIVE join_dots(_)
join_dots(parts) ==
    IF Len(parts) = 1 THEN parts[1]
    ELSE parts[1] \o <<".">> \o join_dots(Tail(parts))

\* d.update(other)
RECURSIVE update(_, _)
update(d, other) ==
    IF other = <<>> THEN d
    ELSE update(Put(d, other[1][1], other[1][2]), Tail(other))

\* Some event of l after index n binds path in the context.
BoundAfter(l, n, path) ==
    \E j \in (n + 1)..Len(l) : l[j].ev = "bind" /\ l[j].arg = path

\* Resolver.resolve(dict), lines 116-123: from target, walk remaining[:-1],
\* creating the mappings that are missing, and set remaining[-1] to value.
\* The value is target as the walk leaves it.
RECURSIVE set_nested(_, _, _)
set_nested(target, remaining, value) ==
    IF target.t \notin {"dict", "patch"} THEN Raise("TypeError")
    ELSE Let(IF target.t = "dict" THEN target.entries ELSE target.mapping,
             LAMBDA entries :
         Then(IF Len(remaining) = 1 THEN Returned(value)
              ELSE set_nested(IF HasKey(entries, Head(remaining))
                              THEN Get(entries, Head(remaining)) ELSE Dict(<<>>),
                              Tail(remaining), value), LAMBDA inner :
         IF target.t = "dict"
         THEN Returned(Dict(Put(entries, Head(remaining), inner.val)))
         ELSE Returned(PatchSpec(Put(entries, Head(remaining), inner.val)))))

\* Resolver.resolve(dict), lines 110-123: the loop over the parents of the
\* child whose parts are given, from the parent of i parts on.
RECURSIVE parent_updates(_, _, _, _)
parent_updates(parts, i, value, c) ==
    IF i > Len(parts) - 1 THEN Returned(c)
    ELSE Let(join_dots(SubSeq(parts, 1, i)), LAMBDA parent_path :
         IF parent_path \in DOMAIN c /\ c[parent_path].t = "dict"
         THEN Then(set_nested(c[parent_path],
                              SubSeq(parts, i + 1, Len(parts)), value), LAMBDA r :
              parent_updates(parts, i + 1, value,
                             [c EXCEPT ![parent_path] = r.val]))
         ELSE parent_updates(parts, i + 1, value, c))

\* Resolver.resolve(dict), lines 95-97: the context entries of the merged keys.
RECURSIVE bind_merged(_, _, _, _)
bind_merged(entries, path, c, l) ==
    IF entries = <<>> THEN Ok(None, c, l)
    ELSE bind_merged(Tail(entries), path,
                     Bind(c, Child(path, entries[1][1]), entries[1][2]),
                     Append(l, Bound(Child(path, entries[1][1]), "merged",
                                     entries[1][2])))

\* Resolver._include, line 40:
\* self.VAR_RE.sub(lambda m: str(self._get(m.group(1))), node.path)
RECURSIVE VAR_RE_sub_get(_, _)
VAR_RE_sub_get(s, c) ==
    IF s = <<>> THEN Returned(<<>>)
    ELSE IF VAR_RE_match(s)
    THEN Let(FirstIndex(s, "}"), LAMBDA k :
         Then(_get(c, SubSeq(s, 3, k - 1)), LAMBDA value :
         Then(VAR_RE_sub_get(From(s, k + 1), c), LAMBDA rest :
         Returned(str(value.val) \o rest.val))))
    ELSE Then(VAR_RE_sub_get(Tail(s), c), LAMBDA rest :
         Returned(<< Head(s) >> \o rest.val))

\* Resolver._include, lines 40-45: the included file, loaded and with its
\* own include list expanded, before it is resolved.
_include_merged(node, c, l) ==
    Let(VAR_RE_sub_get(node.path, c), LAMBDA name :
    IF ~name.ok THEN Err(name.err, c, l)
    ELSE Let(IF node._base_path # NoValue /\ node._base_path # <<>>
                /\ ~isabs(name.val)
             THEN join(dirname(node._base_path), name.val)
             ELSE name.val, LAMBDA fn :
         IF check_include(policy, fn) = Deny
         THEN Err(Deny, c, Append(l, Event("check_include", fn, Deny)))
         ELSE Then(Open(load_raw(fn), fn, c,
                        Append(l, Event("check_include", fn, Permit))), LAMBDA raw :
              include_process_includes(raw.val, fn, raw.ctx, raw.log))))

RECURSIVE resolve(_, _, _, _)
RECURSIVE resolve_all(_, _, _, _)
RECURSIVE resolve_values(_, _, _, _)
RECURSIVE resolve_entries(_, _, _, _, _, _, _)

\* [self.resolve(x, path) for x in nodes]
resolve_all(nodes, path, c, l) ==
    IF nodes = <<>> THEN Ok(<<>>, c, l)
    ELSE Then(resolve(Head(nodes), path, c, l), LAMBDA h :
         Then(resolve_all(Tail(nodes), path, h.ctx, h.log), LAMBDA t :
         Ok(<< h.val >> \o t.val, t.ctx, t.log)))

\* {k: self.resolve(v, path) for k, v in kwargs.items()}
resolve_values(kwargs, path, c, l) ==
    IF kwargs = <<>> THEN Ok(<<>>, c, l)
    ELSE Then(resolve(Head(kwargs)[2], path, c, l), LAMBDA h :
         Then(resolve_values(Tail(kwargs), path, h.ctx, h.log), LAMBDA t :
         Ok(<< <<Head(kwargs)[1], h.val>> >> \o t.val, t.ctx, t.log)))

\* Resolver.resolve(node: CallSpec, path)
resolve_call(node, path, c, l) ==
    Then(IF is_interpolated(node)
         THEN _resolve_interpolated_callable(node.path, c, l)
         ELSE _resolve_direct_callable(node.path, c, l), LAMBDA fn :
    Then(resolve_all(node.args, path, fn.ctx, fn.log), LAMBDA args :
    Then(resolve_values(node.kwargs, path, args.ctx, args.log), LAMBDA kwargs :
    Then(_apply_call(fn.val, args.val, kwargs.val, kwargs.ctx, kwargs.log),
         LAMBDA inst :
    Ok(inst.val, Bind(inst.ctx, path, inst.val),
       Append(inst.log, Bound(path, "instance", inst.val)))))))

\* Resolver._include(node, path)
_include(node, c, l) ==
    Then(_include_merged(node, c, l), LAMBDA merged :
    resolve(merged.val, <<>>, merged.ctx, merged.log))

\* resolve(node: IncludeFromSpec, path) without the extraction of the target
\* key: the whole resolved mapping is returned for every attaching key.
resolve_include_from_whole(node, path, c, l) == _include(node, c, l)

\* Resolver.resolve(node: IncludeFromSpec, path).  resolved.pop(target_key)
\* takes the key out of the mapping the context holds at "" as well, while
\* the context still holds that very mapping there.
resolve_include_from(node, path, c, l) ==
    Then(_include_merged(node, c, l), LAMBDA merged :
    Then(resolve(merged.val, <<>>, merged.ctx, merged.log), LAMBDA resolved :
    Let(split(path, "."), LAMBDA parts :
    LET target_key == parts[Len(parts)]
        held == ~BoundAfter(resolved.log, Len(merged.log) + 1, <<>>)
    IN  IF target_key = <<"_">> THEN resolved
        ELSE IF ~HasKey(resolved.val.entries, target_key)
        THEN Err("ResolutionError", resolved.ctx, resolved.log)
        ELSE Ok(Get(resolved.val.entries, target_key),
                IF held
                THEN [resolved.ctx EXCEPT
                        ![<<>>] = Dict(Without(resolved.val.entries, target_key))]
                ELSE resolved.ctx,
                resolved.log))))

\* Resolver.resolve(node: dict, path): the loop over node.items() from index
\* i on.  out is the mapping built so far; held says that the context still
\* holds that very mapping at path, so that what is written through the
\* context at path is written to out.
resolve_entries(entries, i, path, out, held, c, l) ==
    IF i > Len(entries)
    THEN Ok(Dict(out), c, l)
    ELSE
      Then(resolve(entries[i][2], Child(path, entries[i][1]), c, l), LAMBDA r :
      LET key == entries[i][1]
          val == entries[i][2]
          child == Child(path, key)
          held1 == held /\ ~BoundAfter(r.log, Len(l), path)
          out1 == IF held1 THEN r.ctx[path].entries ELSE out
      IN
      IF key = <<"_">> /\ val.t = "include_from" /\ r.val.t = "dict"
      THEN \* the _ wildcard of an IncludeFromSpec that resolved to a mapping
           Let(update(out1, r.val.entries), LAMBDA merged_out :
           Let(bind_merged(r.val.entries, path,
                           IF held1
                           THEN [r.ctx EXCEPT ![path] = Dict(merged_out)]
                           ELSE r.ctx,
                           r.log), LAMBDA merged_ctx :
           resolve_entries(entries, i + 1, path, merged_out, held1,
                           merged_ctx.ctx, merged_ctx.log)))
      ELSE \* every other entry
           Let(Put(out1, key, r.val), LAMBDA out2 :
           Let(Bind(IF held1 THEN [r.ctx EXCEPT ![path] = Dict(out2)] ELSE r.ctx,
                    child, r.val), LAMBDA c2 :
           Let(Append(r.log, Bound(child, "child", r.val)), LAMBDA l2 :
           Let(IF Has(child, ".")
               THEN parent_updates(split(child, "."), 1, r.val, c2)
               ELSE Returned(c2), LAMBDA updated :
           IF ~updated.ok THEN Err(updated.err, c2, l2)
           ELSE resolve_entries(entries, i + 1, path,
                                IF held1 THEN updated.val[path].entries ELSE out2,
                                held1, updated.val, l2))))))

\* Resolver.resolve(node: dict, path)
resolve_dict(node, path, c, l) ==
    resolve_entries(node.entries, 1, path, <<>>, TRUE,
                    Bind(c, path, Dict(<<>>)),
                    Append(l, Bound(path, "dict", Dict(<<>>))))

\* Resolver.resolve(node, path): the handler single dispatch picks for the
\* node's type; a node of a type without a handler is returned as it is.
resolve(node, path, c, l) ==
    CASE node.t = "import" -> resolve_import(node, c, l)
      [] node.t = "include" -> _include(node, c, l)
      [] node.t = "include_from" -> resolve_include_from(node, path, c, l)
      [] node.t = "call" -> resolve_call(node, path, c, l)
      [] node.t = "dict" -> resolve_dict(node, path, c, l)
      [] node.t = "list" ->
            Then(resolve_all(node.items, path, c, l), LAMBDA r :
                 Ok(List(r.val), r.ctx, r.log))
      [] node.t = "str" -> resolve_str(node, c, l)
      [] node.t \in {"scalar", "none", "date", "extend", "patch", "include_at",
                     "symbol", "method", "instance"} -> Ok(node, c, l)

----------------------------------------------------------------------------
(* Overrides (cli.py, override.py) and the YAML text cli.py builds of them  *)

\* "pyamlo."
OverridePrefix == << "p", "y", "a", "m", "l", "o", "." >>

\* "--cfg-output="
CfgOutputFlag ==
    << "-", "-", "c", "f", "g", "-", "o", "u", "t", "p", "u", "t", "=" >>

\* s.split(c, 1), c in s
split_once(s, c) ==
    << SubSeq(s, 1, FirstIndex(s, c) - 1), From(s, FirstIndex(s, c) + 1) >>

\* The days of a month, as datetime.date counts them.
DaysIn(year, month) ==
    IF month \in {4, 6, 9, 11} THEN 30
    ELSE IF month # 2 THEN 31
    ELSE IF year % 4 = 0 /\ (year % 100 # 0 \/ year % 400 = 0) THEN 29
    ELSE 28

\* The implicit timestamp of YAML in its date form: four digits, one or two,
\* one or two, with dashes between.
IsTimestamp(s) ==
    /\ Len(split(s, "-")) = 3
    /\ \A i \in 1..3 : IsLiteral(split(s, "-")[i])
    /\ Len(split(s, "-")[1]) = 4
    /\ Len(split(s, "-")[2]) \in {1, 2}
    /\ Len(split(s, "-")[3]) \in {1, 2}

\* datetime.date(year, month, day) accepts the fields.
IsDate(s) ==
    Let(split(s, "-"), LAMBDA f :
    /\ IntOf(f[1]) >= 1
    /\ IntOf(f[2]) \in 1..12
    /\ IntOf(f[3]) \in 1..DaysIn(IntOf(f[1]), IntOf(f[2])))

\* The plain scalar s does not parse: a flow collection that is opened and
\* not closed, or a mapping value inside a plain scalar.
IsBadYaml(s) ==
    \/ s # <<>> /\ Head(s) \in {"[", "{"} /\ s[Len(s)] \notin {"]", "}"}
    \/ Contains(s, <<":", " ">>)

\* What the loader constructs of a plain scalar that parses: nothing, an
\* int, a date, or the string itself.  An implicit timestamp that is no date
\* raises ValueError, which is no YAMLError.
construct_scalar(s) ==
    IF s = <<>> THEN Returned(None)
    ELSE IF IsLiteral(s) THEN Returned(Scalar(IntOf(s)))
    ELSE IF IsTimestamp(s)
    THEN IF IsDate(s) THEN Returned([t |-> "date", v |-> s])
         ELSE Raise("ValueError")
    ELSE Returned(Str(s))

\* loader.get_single_data() of the one-line document s
yaml_load_value(s) ==
    IF IsBadYaml(s) THEN Raise("YAMLError") ELSE construct_scalar(s)

(* override.py *)

\* override.parse_cli_overrides, lines 53-60: the value parsed by the
\* tag-aware loader, by yaml.safe_load when that fails for any reason, and
\* kept as it is when safe_load raises a YAMLError.
parsed_value(value) ==
    Let(yaml_load_value(value), LAMBDA tagged :
    IF tagged.ok THEN tagged
    ELSE Let(yaml_load_value(value), LAMBDA safe :
         IF safe.ok THEN safe
         ELSE IF safe.err = "YAMLError" THEN Returned(Str(value))
         ELSE safe))

\* override.parse_cli_overrides, lines 62-63:
\* reduce(lambda d, k: d.setdefault(k, {}), parts[:-1], result)[parts[-1]] = v
\* as the mapping result it leaves, or the error of a target that is no mapping.
RECURSIVE setdefault_path(_, _, _)
setdefault_path(d, parts, v) ==
    IF d.t # "dict"
    THEN IF Len(parts) = 1 THEN Raise("TypeError") ELSE Raise("AttributeError")
    ELSE IF Len(parts) = 1 THEN Returned(Dict(Put(d.entries, parts[1], v)))
    ELSE Then(setdefault_path(IF HasKey(d.entries, parts[1])
                              THEN Get(d.entries, parts[1]) ELSE Dict(<<>>),
                              Tail(parts), v), LAMBDA inner :
         Returned(Dict(Put(d.entries, parts[1], inner.val))))

\* override.parse_cli_overrides: the loop over overrides from index i on.
RECURSIVE override_entries(_, _, _)
override_entries(overrides, i, result) ==
    IF i > Len(overrides) THEN Returned(result)
    ELSE IF ~Has(overrides[i], "=") THEN Raise("OverrideError")
    ELSE Let(split_once(overrides[i], "="), LAMBDA kv :
         IF ~StartsWith(kv[1], OverridePrefix)
         THEN override_entries(overrides, i + 1, result)
         ELSE Then(parsed_value(kv[2]), LAMBDA value :
              Then(setdefault_path(result,
                                   split(From(kv[1], Len(OverridePrefix) + 1), "."),
                                   value.val), LAMBDA target :
              override_entries(overrides, i + 1, target.val))))

\* override.parse_cli_overrides(overrides)
override_parse_cli_overrides(overrides) ==
    override_entries(overrides, 1, Dict(<<>>))

(* cli.py *)

\* cli.parse_cli_overrides, lines 54-67: grouped_overrides after the loop
\* over overrides from index i on; each root with its (parts, value) entries.
RECURSIVE group_overrides(_, _, _)
group_overrides(overrides, i, grouped) ==
    IF i > Len(overrides) THEN Returned(grouped)
    ELSE IF ~Has(overrides[i], "=") THEN Raise("OverrideError")
    ELSE Let(split_once(overrides[i], "="), LAMBDA kv :
         IF ~StartsWith(kv[1], OverridePrefix)
         THEN group_overrides(overrides, i + 1, grouped)
         ELSE Let(split(From(kv[1], Len(OverridePrefix) + 1), "."), LAMBDA parts :
              group_overrides(
                  overrides, i + 1,
                  Put(grouped, parts[1],
                      Append(IF HasKey(grouped, parts[1])
                             THEN Get(grouped, parts[1]) ELSE <<>>,
                             << Tail(parts), kv[2] >>)))))

\* A line of combined_yaml: indent times two blanks, then "key:", "key: value"
\* or a value alone.
KeyLine(indent, key) == [indent |-> indent, key |-> key, val |-> NoValue]
EntryLine(indent, key, value) == [indent |-> indent, key |-> key, val |-> value]
ValueLine(indent, value) == [indent |-> indent, key |-> NoValue, val |-> value]

\* cli.parse_cli_overrides, lines 73-80: the lines of one entry of a root.
entry_lines(parts, value) ==
    IF parts = <<>> THEN << ValueLine(1, value) >>
    ELSE [ j \in 1..Len(parts) |->
             IF j < Len(parts) THEN KeyLine(j, parts[j])
             ELSE EntryLine(j, parts[j], value) ]

RECURSIVE entries_lines(_)
entries_lines(entries) ==
    IF entries = <<>> THEN <<>>
    ELSE entry_lines(entries[1][1], entries[1][2]) \o entries_lines(Tail(entries))

\* cli.parse_cli_overrides, lines 69-80: combined_yaml, line by line.
RECURSIVE combined_yaml(_)
combined_yaml(grouped) ==
    IF grouped = <<>> THEN <<>>
    ELSE << KeyLine(0, grouped[1][1]) >> \o entries_lines(grouped[1][2])
         \o combined_yaml(Tail(grouped))

\* The lines of a block that follow line i and lie deeper than it.
BlockEnd(lines, i) ==
    IF \E j \in (i + 1)..Len(lines) : lines[j].indent <= lines[i].indent
    THEN (CHOOSE j \in (i + 1)..Len(lines) :
              /\ lines[j].indent <= lines[i].indent
              /\ \A k \in (i + 1)..(j - 1) : lines[k].indent > lines[i].indent) - 1
    ELSE Len(lines)

\* " ".join of the values of the lines: a plain scalar that runs over
\* several lines is folded into one.
RECURSIVE folded(_)
folded(lines) ==
    IF Len(lines) = 1 THEN lines[1].val
    ELSE lines[1].val \o <<" ">> \o folded(Tail(lines))

\* The scanner and the parser of YAML accept the block of lines, whose first
\* line is its least indented: values alone make one plain scalar, keys make a
\* mapping, and the two do not mix.
RECURSIVE yaml_parses(_)
yaml_parses(lines) ==
    IF \A i \in 1..Len(lines) : lines[i].key = NoValue
    THEN ~IsBadYaml(folded(lines))
    ELSE /\ \A i \in 1..Len(lines) :
              lines[i].indent = lines[1].indent => lines[i].key # NoValue
         /\ \A i \in 1..Len(lines) :
              lines[i].indent = lines[1].indent =>
                  IF lines[i].val # NoValue
                  THEN BlockEnd(lines, i) = i /\ ~IsBadYaml(lines[i].val)
                  ELSE BlockEnd(lines, i) = i
                       \/ yaml_parses(SubSeq(lines, i + 1, BlockEnd(lines, i)))

\* The constructor of YAML on a block that parses: the mapping of its keys in
\* order, a key met again keeping its place and taking the later value.
RECURSIVE yaml_construct(_)
RECURSIVE yaml_construct_from(_, _, _)
yaml_construct_from(lines, i, out) ==
    IF i > Len(lines) THEN Returned(Dict(out))
    ELSE Then(IF lines[i].val # NoValue THEN construct_scalar(lines[i].val)
              ELSE IF BlockEnd(lines, i) = i THEN Returned(None)
              ELSE yaml_construct(SubSeq(lines, i + 1, BlockEnd(lines, i))),
              LAMBDA value :
         yaml_construct_from(lines, BlockEnd(lines, i) + 1,
                             Put(out, lines[i].key, value.val)))

yaml_construct(lines) ==
    IF \A i \in 1..Len(lines) : lines[i].key = NoValue
    THEN construct_scalar(folded(lines))
    ELSE yaml_construct_from(lines, 1, <<>>)

\* yaml.load(combined_yaml, Loader=ConfigLoader)
yaml_load(lines) ==
    IF lines = <<>> THEN Returned(None)
    ELSE IF ~yaml_parses(lines) THEN Raise("YAMLError")
    ELSE yaml_construct(lines)

\* cli.parse_cli_overrides(overrides)
cli_parse_cli_overrides(overrides) ==
    Then(group_overrides(overrides, 1, <<>>), LAMBDA grouped :
    Let(yaml_load(combined_yaml(grouped.val)), LAMBDA parsed :
    IF ~parsed.ok
    THEN IF parsed.err = "YAMLError" THEN Raise("OverrideError") ELSE parsed
    ELSE IF parsed.val = None THEN Returned(Dict(<<>>))
    ELSE parsed))

----------------------------------------------------------------------------
(* Loading (config.py, sources.py) and the entry point (__main__.py)        *)

\* if raw: / if processed: a document that is None or an empty mapping is
\* falsy.
Empty(doc) == doc.t = "none" \/ (doc.t = "dict" /\ doc.entries = <<>>)

\* cli.process_cli(config, overrides)
process_cli(config, overrides, c, l) ==
    IF overrides = <<>> THEN Ok(config, c, l)
    ELSE Let(cli_parse_cli_overrides(overrides), LAMBDA parsed :
         IF ~parsed.ok THEN Err(parsed.err, c, l)
         ELSE Then(Merge(config.entries, parsed.val.entries, c, l), LAMBDA m :
              Ok(Dict(m.val), m.ctx, m.log)))

\* config._load_yaml(source): the file opened and parsed
_load_yaml(source, c, l) ==
    IF source \in DOMAIN files THEN Ok(files[source], c, l)
    ELSE Err("FileNotFoundError", c, l)

\* config.load_config, lines 87-98: the loop over sources from index i on,
\* config being the mapping merged so far.
RECURSIVE load_sources(_, _, _, _, _)
load_sources(sources, i, config, c, l) ==
    IF i > Len(sources) THEN Ok(Dict(config), c, l)
    ELSE Then(_load_yaml(sources[i], c, l), LAMBDA raw :
         IF Empty(raw.val)
         THEN load_sources(sources, i + 1, config, raw.ctx, raw.log)
         ELSE Then(merge_process_includes(set_base_paths(raw.val, sources[i]),
                                          sources[i], raw.ctx, raw.log),
                   LAMBDA processed :
              Then(Merge(config, processed.val.entries,
                         processed.ctx, processed.log), LAMBDA m :
              load_sources(sources, i + 1, m.val, m.ctx, m.log))))

\* load_config with the overrides applied to the resolved configuration.
load_config_overrides_last(sources, overrides, c, l) ==
    Then(load_sources(sources, 1, <<>>, c, l), LAMBDA config :
    Then(resolve(config.val, <<>>, config.ctx, config.log), LAMBDA resolved :
    process_cli(resolved.val, overrides, resolved.ctx, resolved.log)))

\* config.load_config(source, overrides) on a list of sources, use_cli False
load_config(sources, overrides, c, l) ==
    Then(load_sources(sources, 1, <<>>, c, l), LAMBDA config :
    Then(process_cli(config.val, overrides, config.ctx, config.log), LAMBDA over :
    resolve(over.val, <<>>, over.ctx, over.log)))

\* A source of merge_all_sources: a path, or a mapping handed over as it is.
PathSource(name) == [kind |-> "path", name |-> name]
DictSource(data) == [kind |-> "dict", data |-> data]

DictPath == << "<", "d", "i", "c", "t", ">" >>

\* sources._process_dict_tags.has_yaml_tags(obj)
RECURSIVE has_yaml_tags(_)
has_yaml_tags(obj) ==
    IF obj.t = "dict"
    THEN \E i \in DOMAIN obj.entries : has_yaml_tags(obj.entries[i][2])
    ELSE IF obj.t = "list"
    THEN \E i \in DOMAIN obj.items : has_yaml_tags(obj.items[i])
    ELSE IF obj.t = "str" THEN StartsWith(obj.v, <<"!">>)
    ELSE FALSE

\* sources._process_single_source(src, security_policy); a mapping in which
\* no string starts with "!" is taken as it is by _process_dict_tags.
_process_single_source(src, c, l) ==
    Then(IF src.kind = "dict" THEN Ok(src.data, c, l)
         ELSE _load_yaml(src.name, c, l), LAMBDA raw :
    IF Empty(raw.val) THEN Ok(Dict(<<>>), raw.ctx, raw.log)
    ELSE IF src.kind = "dict"
    THEN include_process_includes(raw.val, DictPath, raw.ctx, raw.log)
    ELSE include_process_includes(set_base_paths(raw.val, src.name), src.name,
                                  raw.ctx, raw.log))

\* sources.merge_all_sources: the loop over sources from index i on.
RECURSIVE merge_sources(_, _, _, _, _)
merge_sources(sources, i, config, c, l) ==
    IF i > Len(sources) THEN Ok(Dict(config), c, l)
    ELSE Then(_process_single_source(sources[i], c, l), LAMBDA processed :
         IF Empty(processed.val)
         THEN merge_sources(sources, i + 1, config, processed.ctx, processed.log)
         ELSE Then(Merge(config, processed.val.entries,
                         processed.ctx, processed.log), LAMBDA m :
              merge_sources(sources, i + 1, m.val, m.ctx, m.log)))

\* sources.merge_all_sources(sources, security_policy)
merge_all_sources(sources, c, l) == merge_sources(sources, 1, <<>>, c, l)

\* __main__.parse_args, lines 13-15: nothing parsed yet.
NoArgs ==
    [config_files |-> <<>>, override_args |-> <<>>, cfg_output_file |-> NoValue]

\* __main__.parse_args(args), the loop from index i on.
RECURSIVE parse_args(_, _, _)
parse_args(args, i, parsed) ==
    IF i > Len(args) THEN parsed
    ELSE IF StartsWith(args[i], CfgOutputFlag)
    THEN parse_args(args, i + 1,
                    [parsed EXCEPT !.cfg_output_file = split_once(args[i], "=")[2]])
    ELSE IF StartsWith(args[i], OverridePrefix) /\ Has(args[i], "=")
    THEN parse_args(args, i + 1,
                    [parsed EXCEPT !.override_args = Append(@, args[i])])
    ELSE IF ~StartsWith(args[i], <<"-">>)
    THEN parse_args(args, i + 1,
                    [parsed EXCEPT !.config_files = Append(@, args[i])])
    ELSE parse_args(args, i + 1, parsed)

\* What main leaves behind: its return value, the first line it printed to
\* standard error without the message, whether it printed the usage, and
\* whether it wrote the output file.
Exit(code, stderr, usage, written) ==
    [code |-> code, stderr |-> stderr, usage |-> usage, written |-> written]

\* __main__.main() with sys.argv[1:] = args
main(args, c, l) ==
    Let(parse_args(args, 1, NoArgs), LAMBDA a :
    IF a.config_files = <<>> THEN Exit(1, "Error: ", TRUE, FALSE)
    ELSE Let(load_config(a.config_files, a.override_args, c, l), LAMBDA config :
         IF config.ok THEN Exit(0, "", FALSE, a.cfg_output_file # NoValue)
         ELSE IF config.err = "ValueError" THEN Exit(1, "Error: ", TRUE, FALSE)
         ELSE Exit(1, "Error loading configuration: ", FALSE, FALSE)))

----------------------------------------------------------------------------
(* SpecResolve: one Resolver, its context as an earlier part of the        *)
(* traversal left it, resolving one node                                    *)

\* What the context may hold for the names a and b.
CtxValues ==
    { Str(<<"a">>), Str(<<"b">>), Str(<<"a", ".", "b">>), Symbol(<<"b">>),
      Scalar(1) }

Contexts ==
    UNION { [names -> CtxValues] : names \in SUBSET { <<"a">>, <<"b">> } }

\* The paths of the CallSpecs: plain, a single variable, a method of a
\* variable, and templates with variables in them.
CallPaths ==
    { <<"a", "b">>, <<"a", ".", "b">>, <<"b", ".", "b">>,
      <<"$", "a">>, <<"$", "b">>, <<"$", "a", "$", "b">>,
      <<"$", "a", ".", "b">>,
      <<"a", ".", "$", "b">>, <<"$", "a", ".", "$", "b">>, <<"a", "$", "b">> }

CallArgs ==
    { <<>>, << Scalar(1) >>, << Scalar(1), Scalar(2) >>,
      << CallSpec(<<"a", ".", "b">>, <<>>, <<>>) >> }

CallKwargs == { <<>>, << << <<"k">>, ImportSpec(<<"b">>) >> >> }

CallNodes ==
    { CallSpec(p, a, k) : p \in CallPaths, a \in CallArgs, k \in CallKwargs }

ImportNodes ==
    { ImportSpec(p) : p \in { <<"a", "b">>, <<"a", ".", "b">>, <<"b">>,
                              <<"b", ".", "b">>, <<"$", "a">> } }

StrNodes ==
    { Str(s) : s \in { <<"a">>,
                       <<"$", "{", "a", "}">>,
                       <<"b", "$", "{", "a", "}">>,
                       <<"$", "{", "a", ".", "b", "}">>,
                       <<"$", "{", "1", "+", "1", "}">>,
                       <<"$", "{", "a", "+", "1", "}">>,
                       <<"a", "$", "{", "1", "+", "1", "}">>,
                       <<"$", "{", "1", "+", "1", "}", "$", "{", "a", "}">>,
                       <<"$", "{", "}", "$", "{", "b", "}">> } }

ListNodes ==
    { List(<< x, y >>) :
        x \in { ImportSpec(<<"b">>), Str(<<"$", "{", "a", "}">>) },
        y \in { CallSpec(<<"$", "a">>, <<>>, <<>>),
                Str(<<"a", "$", "{", "1", "+", "1", "}">>) } }

DictNodes ==
    { Dict(<< << <<"a">>, Str(<<"b">>) >>,
              << <<"b">>, Str(<<"$", "{", "a", "}">>) >> >>),
      Dict(<< << <<"b">>, Str(<<"$", "{", "a", "}">>) >>,
              << <<"a">>, Str(<<"b">>) >> >>),
      Dict(<< << <<"c">>,
                 Dict(<< << <<"a">>, Scalar(1) >>,
                         << <<"b">>, Str(<<"$", "{", "c", ".", "a", "+", "1", "}">>) >>
                      >>) >> >>),
      Dict(<< << <<"c">>,
                 Dict(<< << <<"c">>, Dict(<< << <<"a">>, Scalar(1) >> >>) >>,
                         << <<"b">>, Str(<<"$", "{", "c", ".", "c", "}">>) >> >>)
              >> >>),
      Dict(<< << <<"c">>, CallSpec(<<"a", ".", "$", "b">>, <<>>, <<>>) >> >>) }

\* The path of the node resolved, when it is not the root.
NodePath == <<"c">>

ResolvePolicies ==
    { p \in Policies : p.allowed_env_vars = {} /\ p.allowed_include_paths = {} }

InitResolve ==
    /\ policy \in ResolvePolicies
    /\ last = NoCall
    /\ environ = [n \in {} |-> NoValue]
    /\ files = [n \in {} |-> NoValue]
    /\ ctx \in Contexts
    /\ log = <<>>
    /\ outcome = [op |-> "none"]
    /\ IdleMerge
    /\ stack = <<>>
    /\ heap = NoHeap

\* The Resolver after resolve(node, path) returned or raised.
Resolved(node, path, r) ==
    /\ ctx' = r.ctx
    /\ log' = r.log
    /\ outcome' = [op |-> "resolve", node |-> node, path |-> path,
                   status |-> IF r.ok THEN "returned" ELSE r.err,
                   val |-> IF r.ok THEN r.val ELSE None]
    /\ UNCHANGED <<environ, files, secVars, mergeVars, stack, heap>>

ResolveImportSpec ==
    /\ outcome.op = "none"
    /\ \E node \in ImportNodes :
           Resolved(node, NodePath, resolve(node, NodePath, ctx, <<>>))

ResolveCallSpec ==
    /\ outcome.op = "none"
    /\ \E node \in CallNodes :
           Resolved(node, NodePath, resolve(node, NodePath, ctx, <<>>))

ResolveStr ==
    /\ outcome.op = "none"
    /\ \E node \in StrNodes :
           Resolved(node, NodePath, resolve(node, NodePath, ctx, <<>>))

ResolveList ==
    /\ outcome.op = "none"
    /\ \E node \in ListNodes :
           Resolved(node, NodePath, resolve(node, NodePath, ctx, <<>>))

ResolveDict ==
    /\ outcome.op = "none"
    /\ \E node \in DictNodes :
           Resolved(node, <<>>, resolve(node, <<>>, ctx, <<>>))

NextResolve ==
    \/ ResolveImportSpec
    \/ ResolveCallSpec
    \/ ResolveStr
    \/ ResolveList
    \/ ResolveDict

SpecResolve == InitResolve /\ [][NextResolve]_vars

----------------------------------------------------------------------------
(* SpecInclude: the include pipelines over a small file system: the one    *)
(* merge_all_sources runs (include.py), the one load_config runs           *)
(* (merge.py), and the includes the Resolver meets during resolution       *)

FileA == <<"a">>
FileB == <<"b">>

\* What the file b parses to: it includes nothing.
ContentsB ==
    { Dict(<< << <<"b">>, Scalar(1) >> >>),
      Dict(<< << <<"a">>, Scalar(2) >> >>),
      Dict(<< << <<"a">>, Scalar(2) >>, << <<"b">>, Scalar(1) >> >>) }

\* What the file a parses to: plain values, or an include of b of each kind.
ContentsA ==
    { Dict(<< << <<"a">>, Scalar(1) >> >>),
      Dict(<< << IncludeKey, List(<< Str(FileB) >>) >>,
              << <<"a">>, Scalar(1) >> >>),
      Dict(<< << <<"a">>, IncludeSpec(FileB, NoValue) >> >>),
      Dict(<< << <<"b">>, IncludeAtSpec(FileB) >> >>),
      Dict(<< << <<"_">>, IncludeFromSpec(FileB, NoValue) >>,
              << <<"a">>, Scalar(1) >> >>) }

FileSystems ==
    { [ p \in {FileA, FileB} |-> IF p = FileA THEN ca ELSE cb ] :
        ca \in ContentsA, cb \in ContentsB }
    \cup { [ p \in {FileB} |-> cb ] : cb \in ContentsB }
    \cup { [ p \in {} |-> None ] }

\* The path of the document the includes are found in: none, the working
\* directory, or a directory d.
BasePaths == { NoValue, <<"c">>, <<"d", "/", "c">> }

\* The entries of an include! list.
IncludeEntries ==
    { Str(FileA), Str(FileB), Str(<<"/", "a">>), Scalar(1),
      List(<< Str(FileB), Str(<<"a">>) >>),
      List(<< Str(FileB), Str(<<"b">>) >>) }

IncludeLists ==
    { <<>> } \cup { << e >> : e \in IncludeEntries }
    \cup { << Str(FileA), Str(FileB) >> }

\* Documents with a traditional include list.
TraditionalDocs ==
    { Dict(<< << IncludeKey, List(incs) >>, << <<"b">>, Scalar(3) >> >>) :
        incs \in IncludeLists }

\* Documents with a positional include.
PositionalDocs ==
    { Dict(<< << <<"a">>, IncludeAtSpec(FileA) >> >>),
      Dict(<< << <<"b">>, IncludeAtSpec(FileB) >>, << <<"c">>, Scalar(3) >> >>),
      Dict(<< << <<"c">>, Str(FileB) >>,
              << <<"a", ",", " ", "b">>,
                 IncludeAtSpec(<<"$", "{", "c", "}">>) >> >>),
      Dict(<< << <<"b">>, IncludeAtSpec(<<"$", "{", "a", "}">>) >> >>) }

\* Documents whose includes the Resolver meets.
ResolverDocs ==
    { Dict(<< << <<"a">>, IncludeSpec(FileA, base) >> >>) : base \in BasePaths }
    \cup
    { Dict(<< << <<"c">>, Str(FileB) >>,
              << k, IncludeFromSpec(<<"$", "{", "c", "}">>, NoValue) >>,
              << <<"d">>, Scalar(3) >> >>) :
        k \in { <<"a">>, <<"b">>, <<"a", ",", " ", "b">>, <<"_">> } }
    \cup
    { Dict(<< << <<"c">>, Dict(<< << <<"b">>, IncludeFromSpec(FileA, NoValue) >>,
                                 << <<"a">>, Scalar(3) >> >>) >> >>) }

\* Parsed trees with an include-family node in each place a node can be:
\* a mapping, a nested mapping, a sequence, the arguments of a CallSpec,
\* an ExtendSpec and a PatchSpec.
StampDocs ==
    { Dict(<< << <<"a">>, v >>, << <<"b">>, Scalar(3) >> >>) :
        v \in { IncludeSpec(FileB, NoValue),
                IncludeFromSpec(FileB, NoValue),
                IncludeAtSpec(FileB),
                Dict(<< << <<"b">>, IncludeFromSpec(FileB, NoValue) >> >>),
                List(<< Scalar(1), IncludeSpec(FileB, NoValue) >>),
                CallSpec(<<"a", ".", "b">>, << IncludeSpec(FileB, NoValue) >>, <<>>),
                CallSpec(<<"a", ".", "b">>, <<>>,
                         << << <<"k">>, IncludeSpec(FileB, NoValue) >> >>),
                ExtendSpec(<< IncludeSpec(FileB, NoValue) >>),
                PatchSpec(<< << <<"b">>, IncludeFromSpec(FileB, NoValue) >> >>) } }

IncludePolicies ==
    { p \in Policies : p.allowed_env_vars = {} /\ p.allowed_imports = {} }

InitInclude ==
    /\ policy \in IncludePolicies
    /\ last = NoCall
    /\ environ = [n \in {} |-> NoValue]
    /\ files \in FileSystems
    /\ ctx = [n \in {} |-> NoValue]
    /\ log = <<>>
    /\ outcome = [op |-> "none"]
    /\ IdleMerge
    /\ stack = <<>>
    /\ heap = NoHeap

\* The state after the operation op on raw returned or raised.
Processed(op, raw, r) ==
    /\ ctx' = r.ctx
    /\ log' = r.log
    /\ outcome' = [op |-> op, node |-> raw, path |-> <<>>,
                   status |-> IF r.ok THEN "returned" ELSE r.err,
                   val |-> IF r.ok THEN r.val ELSE None]
    /\ UNCHANGED <<environ, files, secVars, mergeVars, stack, heap>>

\* include.process_includes(raw, base_path, security_policy)
IncludeProcessIncludes ==
    /\ outcome.op = "none"
    /\ \E raw \in TraditionalDocs, base_path \in BasePaths :
           Processed("include.process_includes", raw,
                     include_process_includes(raw, base_path, ctx, <<>>))

\* merge.process_includes(raw, base_path)
MergeProcessIncludes ==
    /\ outcome.op = "none"
    /\ \E raw \in TraditionalDocs \cup PositionalDocs, base_path \in BasePaths :
           Processed("merge.process_includes", raw,
                     merge_process_includes(raw, base_path, ctx, <<>>))

\* Resolver.resolve(config) on a document with !include / !include_from
ResolveIncludes ==
    /\ outcome.op = "none"
    /\ \E raw \in ResolverDocs :
           Processed("resolve", raw, resolve(raw, <<>>, ctx, <<>>))

\* include.set_base_paths(data, base_path) on a parsed tree
SetBasePaths ==
    /\ outcome.op = "none"
    /\ \E data \in StampDocs, base_path \in BasePaths \ { NoValue } :
           outcome' = [op |-> "set_base_paths", node |-> data,
                       base_path |-> base_path, status |-> "returned",
                       val |-> set_base_paths(data, base_path)]
    /\ UNCHANGED <<ctx, log, environ, files, secVars, mergeVars, stack, heap>>

NextInclude ==
    \/ IncludeProcessIncludes
    \/ MergeProcessIncludes
    \/ ResolveIncludes
    \/ SetBasePaths

SpecInclude == InitInclude /\ [][NextInclude]_vars

----------------------------------------------------------------------------
(* SpecOverrides: the two parse_cli_overrides, each applied to a list of    *)
(* command-line overrides                                                  *)

OverrideKeys ==
    { <<"a">>, <<"b">>, <<"a", ".", "a">>, <<"a", ".", "b">>,
      <<"a", ".", "a", ".", "a">>, <<"a", ".", "a", ".", "b">> }

\* An int, another, a string, a flow sequence left open, and the thirtieth
\* of February.
OverrideTexts ==
    { <<"1">>, <<"2">>, <<"x">>, <<"[">>,
      <<"2", "0", "0", "1", "-", "0", "2", "-", "3", "0">> }

\* The entries of a command line: pyamlo.<key>=<value>, an entry without the
\* prefix, and one without the equals sign.
OverrideArgs ==
    { OverridePrefix \o k \o <<"=">> \o v : k \in OverrideKeys, v \in OverrideTexts }
    \cup { <<"b", "=", "1">>, OverridePrefix \o <<"a">> }

OverrideLists == UNION { [1..n -> OverrideArgs] : n \in 0..MaxOverrides }

InitOverrides ==
    /\ policy = SecurityPolicy({}, {}, {}, NoneArg, FALSE)
    /\ last = NoCall
    /\ environ = [n \in {} |-> NoValue]
    /\ files = [n \in {} |-> NoValue]
    /\ ctx = [n \in {} |-> NoValue]
    /\ log = <<>>
    /\ outcome \in { [op |-> "none", overrides |-> o] : o \in OverrideLists }
    /\ IdleMerge
    /\ stack = <<>>
    /\ heap = NoHeap

\* parse_cli_overrides returned or raised.
Parsed(op, r) ==
    /\ outcome' = [op |-> op, overrides |-> outcome.overrides,
                   status |-> IF r.ok THEN "returned" ELSE r.err,
                   val |-> IF r.ok THEN r.val ELSE None]
    /\ UNCHANGED <<environ, files, ctx, log, secVars, mergeVars, stack, heap>>

CliParseCliOverrides ==
    /\ outcome.op = "none"
    /\ Parsed("cli.parse_cli_overrides", cli_parse_cli_overrides(outcome.overrides))

OverrideParseCliOverrides ==
    /\ outcome.op = "none"
    /\ Parsed("override.parse_cli_overrides",
              override_parse_cli_overrides(outcome.overrides))

NextOverrides ==
    \/ CliParseCliOverrides
    \/ OverrideParseCliOverrides

SpecOverrides == InitOverrides /\ [][NextOverrides]_vars

----------------------------------------------------------------------------
(* SpecLoad: configuration files loaded as sources, with overrides, by      *)
(* merge_all_sources, by load_config and by the entry point                 *)

MaxSources == 2

KeyA == <<"a">>
KeyB == <<"b">>
KeyC == <<"c">>

RefA == Str(<<"$", "{", "a", "}">>)
RefAA == Str(<<"$", "{", "a", ".", "a", "}">>)

\* What the n-th file parses to.  Its scalars are n, so that a value in the
\* result tells which file it came from.
SourceDocs(n) ==
    { Dict(<<>>),
      Dict(<< <<KeyA, Scalar(n)>> >>),
      Dict(<< <<KeyB, Scalar(n)>> >>),
      Dict(<< <<KeyA, Dict(<< <<KeyA, Scalar(n)>> >>)>> >>),
      Dict(<< <<KeyA, Dict(<< <<KeyB, Scalar(n)>> >>)>> >>),
      Dict(<< <<KeyA, Dict(<< <<KeyA, Scalar(n)>>, <<KeyB, Scalar(n)>> >>)>> >>),
      Dict(<< <<KeyB, RefA>> >>),
      Dict(<< <<KeyA, Scalar(n)>>, <<KeyB, RefA>> >>),
      Dict(<< <<KeyB, RefA>>, <<KeyA, Scalar(n)>> >>),
      Dict(<< <<KeyA, Dict(<< <<KeyA, Scalar(n)>> >>)>>, <<KeyB, RefAA>> >>) }

\* References inside a nested mapping: to an earlier sibling, to a later
\* one, to the mapping they are in, and a key that refers to itself.
NestedDocs ==
    { Dict(<< <<KeyA, Dict(<< <<KeyA, Scalar(1)>>, <<KeyB, RefAA>> >>)>> >>),
      Dict(<< <<KeyA, Dict(<< <<KeyB, RefAA>>, <<KeyA, Scalar(1)>> >>)>> >>),
      Dict(<< <<KeyA, Dict(<< <<KeyB, RefA>> >>)>> >>),
      Dict(<< <<KeyA, RefA>> >>) }

\* The file a may also hold these, or include the file b.
SourceFiles ==
    { [ p \in {FileA, FileB} |-> IF p = FileA THEN da ELSE db ] :
        da \in SourceDocs(1) \cup NestedDocs
               \cup { Dict(<< <<IncludeKey, List(<< Str(FileB) >>)>>,
                              <<KeyC, Scalar(1)>> >>) },
        db \in SourceDocs(2) }

SourceLists == UNION { [1..n -> {FileA, FileB}] : n \in 0..MaxSources }

\* The overrides of a load: none, a key given a value, a nested key, a key
\* of no source, two keys, an entry that is no override, a value that does
\* not parse, and a date that does not exist.
LoadOverrides ==
    { <<>>,
      << OverridePrefix \o <<"a", "=", "5">> >>,
      << OverridePrefix \o <<"b", "=", "5">> >>,
      << OverridePrefix \o <<"a", ".", "a", "=", "5">> >>,
      << OverridePrefix \o <<"c", "=", "5">> >>,
      << OverridePrefix \o <<"a", "=", "5">>, OverridePrefix \o <<"b", "=", "6">> >>,
      << OverridePrefix \o <<"a">> >>,
      << OverridePrefix \o <<"a", "=", "[">> >>,
      << OverridePrefix
         \o <<"a", "=", "2", "0", "0", "1", "-", "0", "2", "-", "3", "0">> >> }

\* The flags of a command line besides files and overrides.
Flags ==
    { <<>>, << <<"-", "v">> >>, << CfgOutputFlag \o <<"o">> >> }

InitLoad ==
    /\ policy = SecurityPolicy({}, {}, {}, NoneArg, FALSE)
    /\ last = NoCall
    /\ environ = [n \in {} |-> NoValue]
    /\ files \in SourceFiles
    /\ ctx = [n \in {} |-> NoValue]
    /\ log = <<>>
    /\ outcome \in { [op |-> "none", sources |-> s, overrides |-> o] :
                       s \in SourceLists, o \in LoadOverrides }
    /\ IdleMerge
    /\ stack = <<>>
    /\ heap = NoHeap

\* The value a call returned, None when it raised.
ValOf(r) == IF r.ok THEN r.val ELSE None

\* The state after op returned or raised: merged is the configuration as
\* the sources left it, config as the overrides left it.
Loaded(op, merged, config, r) ==
    /\ ctx' = r.ctx
    /\ log' = r.log
    /\ outcome' = [op |-> op, sources |-> outcome.sources,
                   overrides |-> outcome.overrides,
                   status |-> IF r.ok THEN "returned" ELSE r.err,
                   merged |-> ValOf(merged), config |-> ValOf(config),
                   val |-> ValOf(r)]
    /\ UNCHANGED <<environ, files, secVars, mergeVars, stack, heap>>

\* merge_all_sources(sources, security_policy), the sources being the
\* paths of the files or the mappings the files hold
MergeAllSources ==
    /\ outcome.op = "none"
    /\ \E dicts \in BOOLEAN :
         /\ dicts => \A i \in DOMAIN outcome.sources :
                         ~has_yaml_tags(files[outcome.sources[i]])
         /\ Let([ i \in DOMAIN outcome.sources |->
                    IF dicts THEN DictSource(files[outcome.sources[i]])
                    ELSE PathSource(outcome.sources[i]) ], LAMBDA sources :
            Loaded(IF dicts THEN "merge_all_sources(dicts)"
                   ELSE "merge_all_sources(paths)",
                   merge_all_sources(sources, ctx, <<>>),
                   merge_all_sources(sources, ctx, <<>>),
                   merge_all_sources(sources, ctx, <<>>)))

\* load_config(sources, overrides)
LoadConfig ==
    /\ outcome.op = "none"
    /\ Loaded("load_config",
              load_sources(outcome.sources, 1, <<>>, ctx, <<>>),
              Then(load_sources(outcome.sources, 1, <<>>, ctx, <<>>), LAMBDA m :
                   process_cli(m.val, outcome.overrides, m.ctx, m.log)),
              load_config(outcome.sources, outcome.overrides, ctx, <<>>))

\* The state after main returned: parsed is what parse_args made of the
\* arguments, load what load_config did when main called it.
Exited(args, parsed, r) ==
    /\ outcome' = [op |-> "main", sources |-> outcome.sources,
                   overrides |-> outcome.overrides, args |-> args,
                   config_files |-> parsed.config_files,
                   load |-> IF parsed.config_files = <<>> THEN "not called"
                            ELSE IF r.ok THEN "returned" ELSE r.err,
                   exit |-> main(args, ctx, <<>>)]
    /\ UNCHANGED <<environ, files, ctx, log, secVars, mergeVars, stack, heap>>

\* python -m pyamlo <flags> <sources> <overrides>
Main ==
    /\ outcome.op = "none"
    /\ \E flags \in Flags :
         Let(parse_args(flags \o outcome.sources \o outcome.overrides, 1,
                        NoArgs), LAMBDA parsed :
         Exited(flags \o outcome.sources \o outcome.overrides, parsed,
                load_config(parsed.config_files, parsed.override_args,
                            ctx, <<>>)))

NextLoad ==
    \/ MergeAllSources
    \/ LoadConfig
    \/ Main

SpecLoad == InitLoad /\ [][NextLoad]_vars

----------------------------------------------------------------------------
(* SpecExpr: ExpressionEvaluator.evaluate applied to an expression, the    *)
(* variables looked up in a context                                        *)

\* The contexts: z is zero, t a string, n a number that is zero or not, a a
\* mapping with the keys b and bc, a_b a number, s a mapping whose key t
\* holds the string "s.t".
ExprContexts ==
    { [ k \in { <<"z">>, <<"t">>, <<"n">>, <<"a">>, <<"a", "_", "b">>, <<"s">> } |->
          CASE k = <<"z">> -> Scalar(0)
            [] k = <<"t">> -> Str(<<"h">>)
            [] k = <<"n">> -> Scalar(nv)
            [] k = <<"a">> -> Dict(<< << <<"b">>, Scalar(bv) >>,
                                      << <<"b", "c">>, Scalar(2) >> >>)
            [] k = <<"a", "_", "b">> -> Scalar(abv)
            [] k = <<"s">> -> Dict(<< << <<"t">>, Str(<<"s", ".", "t">>) >> >>) ] :
        nv \in {0, 4}, bv \in {1, 2}, abv \in {1, 5} }

Expressions ==
    {
      \* errors of the evaluation
      <<"1", "0", " ", "/", " ", "z">>,
      <<"1", "0", " ", "/", "/", " ", "z">>,
      <<"1", "0", " ", "/", " ", "n">>,
      <<"1", "0", " ", "/", "/", " ", "n">>,
      <<"t", " ", "+", " ", "5">>,
      <<"'", "x", "'", " ", "+", " ", "5">>,
      <<"t", " ", "+", " ", "5", " ", "=", "=", " ", "1">>,
      <<"n", " ", "+", "*", " ", "2">>,
      <<"n", " ", "?", " ", "1", " ", ":", " ", "2">>,
      <<"n", " ", "+", " ", "1">>,
      <<"'", "x", "'", " ", "+", " ", "t">>,
      \* variables that do not resolve
      <<"u", " ", "+", " ", "1">>,
      <<"a", ".", "c", " ", "+", " ", "1">>,
      <<"n", ".", "x", " ", "+", " ", "1">>,
      <<"u", " ", "=", "=", " ", "1">>,
      \* conditional expressions
      <<"1", " ", "i", "f", " ", "n", " ", "e", "l", "s", "e", " ", "1", " ", "/", " ", "z">>,
      <<"1", " ", "i", "f", " ", "n", " ", "e", "l", "s", "e", " ", "t", " ", "+", " ", "5">>,
      <<"1", " ", "i", "f", " ", "n", " ", "e", "l", "s", "e", " ", "'", "x", "'", " ", "+", " ", "5">>,
      <<"1", " ", "i", "f", " ", "n", " ", "e", "l", "s", "e", " ", "u">>,
      <<"1", " ", "i", "f", " ", "n", " ", "e", "l", "s", "e", " ", "a", ".", "c">>,
      <<"1", " ", "/", " ", "z", " ", "i", "f", " ", "z", " ", "e", "l", "s", "e", " ", "2">>,
      <<"u", " ", "i", "f", " ", "z", " ", "e", "l", "s", "e", " ", "2">>,
      <<"'", "y", "'", " ", "i", "f", " ", "n", " ", "=", "=", " ", "4", " ", "e", "l", "s", "e", " ", "'", "x", "'">>,
      <<"1", " ", "i", "f", " ", "n">>,
      \* dotted names
      <<"a", ".", "b", " ", "+", " ", "a", "_", "b">>,
      <<"a", "_", "b", " ", "+", " ", "a", ".", "b">>,
      <<"a", ".", "b", " ", "+", " ", "a", ".", "b", "c">>,
      <<"a", ".", "b", "c", " ", "+", " ", "a", ".", "b">>,
      <<"s", ".", "t", " ", "=", "=", " ", "'", "s", ".", "t", "'">>,
      <<"'", "a", ".", "b", "'", " ", "i", "f", " ", "a", ".", "b", " ", "e", "l", "s", "e", " ", "0">>,
      <<"a", ".", "b", " ", "=", "=", " ", "a", "_", "b">>,
      <<"a", ".", "b", " ", "+", " ", "1">>,
      <<"a", ".", "b", " ", "+", " ", "a", ".", "b">> }

InitExpr ==
    /\ policy \in { p \in Policies : p.allowed_env_vars = {}
                                     /\ p.allowed_imports = {}
                                     /\ p.allowed_include_paths = {}
                                     /\ ~p.restrictive }
    /\ last = NoCall
    /\ environ = [n \in {} |-> NoValue]
    /\ files = [n \in {} |-> NoValue]
    /\ ctx \in ExprContexts
    /\ log = <<>>
    /\ outcome = [op |-> "none"]
    /\ IdleMerge
    /\ stack = <<>>
    /\ heap = NoHeap

\* The state after evaluate(expression) returned or raised.
Evaluated(expression, r) ==
    /\ log' = r.log
    /\ outcome' = [op |-> "evaluate", expression |-> expression,
                   status |-> IF r.ok THEN "returned" ELSE r.err,
                   val |-> IF r.ok THEN r.val ELSE None]
    /\ UNCHANGED <<ctx, environ, files, secVars, mergeVars, stack, heap>>

\* ExpressionEvaluator(self._get).evaluate(expression)
Evaluate ==
    /\ outcome.op = "none"
    /\ \E expression \in Expressions :
           Evaluated(expression, evaluate(expression, ctx, <<>>))

NextExpr == Evaluate

SpecExpr == InitExpr /\ [][NextExpr]_vars

----------------------------------------------------------------------------
(* SpecCycle: include expansion one call at a time, over files that may    *)
(* include themselves and one another.  stack holds the calls in progress  *)
(* of process_includes (merge.py and include.py) and of                    *)
(* Resolver.resolve(dict); the documents hold no ${...}, so the context    *)
(* steers nothing and is left out                                          *)

\* The calls the interpreter lets one expansion nest before it raises
\* RecursionError.
RecursionLimit == 4

\* What a file parses to: plain values, or one include of the file p of each
\* kind.
CycleContents ==
    { Dict(<< << <<"a">>, Scalar(1) >> >>) }
    \cup UNION {
        { Dict(<< << IncludeKey, List(<< Str(p) >>) >>,
                  << <<"a">>, Scalar(1) >> >>),
          Dict(<< << <<"a">>, IncludeAtSpec(p) >> >>),
          Dict(<< << <<"a">>, IncludeSpec(p, NoValue) >> >>),
          Dict(<< << <<"a">>, IncludeFromSpec(p, NoValue) >> >>) } :
        p \in { FileA, FileB } }

CycleFileSystems ==
    [ { FileA, FileB } -> CycleContents ] \cup [ { FileA } -> CycleContents ]

InitCycle ==
    /\ policy = SecurityPolicy({}, {}, {}, NoneArg, FALSE)
    /\ last = NoCall
    /\ environ = [n \in {} |-> NoValue]
    /\ files \in CycleFileSystems
    /\ ctx = [n \in {} |-> NoValue]
    /\ log = <<>>
    /\ outcome = [op |-> "none"]
    /\ IdleMerge
    /\ stack = <<>>
    /\ heap = NoHeap

\* A call of merge.process_includes(raw, base_path) at its first line:
\* incs is popped from raw, merged and result are empty.
ProcessIncludesCall(raw, base_path) ==
    [fn |-> "merge.process_includes", base_path |-> base_path,
     incs |-> PopIncludes(raw.entries), merged |-> <<>>,
     raw |-> Without(raw.entries, IncludeKey), i |-> 1, result |-> <<>>]

\* A call of include.process_includes(raw, base_path, security_policy) at
\* its first line.  The mapping raw is deep-merged whole at the end.
IncludeCall(raw, base_path) ==
    [fn |-> "include.process_includes", base_path |-> base_path,
     incs |-> PopIncludes(raw.entries), merged |-> <<>>,
     raw |-> Without(raw.entries, IncludeKey), i |-> 1, result |-> <<>>]

\* A call of Resolver.resolve(node: dict) at its first line; result is out.
ResolveCall(node) ==
    [fn |-> "resolve", base_path |-> NoValue, incs |-> <<>>, merged |-> <<>>,
     raw |-> node.entries, i |-> 1, result |-> <<>>]

\* The innermost call.
top == stack[Len(stack)]

Running(fn) == stack # <<>> /\ top.fn = fn

\* An exception leaves every call in progress: none of them catches it.
Raised(kind) ==
    /\ stack' = <<>>
    /\ outcome' = [outcome EXCEPT !.status = kind]

\* The innermost call goes on as the frame f.
Continue(f) ==
    /\ stack' = [stack EXCEPT ![Len(stack)] = f]
    /\ UNCHANGED outcome

\* A nested call.  Nothing in the code counts the depth: the call is made
\* whatever the depth, and at the interpreter's limit RecursionError is
\* raised, inside yaml.load (where _load_file and load_raw turn it into an
\* IncludeError) or outside it.
Nested(f) ==
    IF Len(stack) < RecursionLimit
    THEN /\ stack' = Append(stack, f)
         /\ UNCHANGED outcome
    ELSE \E kind \in { "RecursionError", "IncludeError" } : Raised(kind)

\* merge._load_traditional_include, lines 140-142
needs_processing(content) ==
    \/ HasKey(content.entries, IncludeKey)
    \/ \E k \in KeysOf(content.entries) :
           Get(content.entries, k).t = "include_at"

\* The caller after the nested call returned value: the frame it goes on
\* as, or the exception it raises.
Resumed(caller, value) ==
    IF caller.fn = "merge.process_includes"
    THEN IF caller.incs # <<>>
         THEN \* line 85: deep_merge(merged, part)
              Then(deep_merge(caller.merged, value.entries), LAMBDA m :
              Returned([caller EXCEPT !.merged = m.val, !.incs = Tail(@)]))
         ELSE \* lines 97-106
              IF _validate_include_at_keys(value.entries,
                                           ExpectedKeys(caller.raw[caller.i][1]))
              THEN Raise("IncludeError")
              ELSE Then(deep_merge(caller.result, value.entries), LAMBDA m :
                   Returned([caller EXCEPT !.result = m.val, !.i = @ + 1]))
    ELSE LET key == caller.raw[caller.i][1]
             val == caller.raw[caller.i][2]
         IN  IF val.t = "include_from" /\ key = <<"_">>
             THEN Returned([caller EXCEPT
                              !.result = update(@, value.entries), !.i = @ + 1])
             ELSE IF val.t = "include_from"
             THEN IF ~HasKey(value.entries, key) THEN Raise("ResolutionError")
                  ELSE Returned([caller EXCEPT
                                   !.result = Put(@, key, Get(value.entries, key)),
                                   !.i = @ + 1])
             ELSE Returned([caller EXCEPT
                              !.result = Put(@, key, value), !.i = @ + 1])

\* The innermost call returns value to its caller, the outermost one to the
\* caller of the expansion.
Return(value) ==
    IF Len(stack) = 1
    THEN /\ stack' = <<>>
         /\ outcome' = [outcome EXCEPT !.status = "returned", !.val = value]
    ELSE Let(Resumed(stack[Len(stack) - 1], value), LAMBDA r :
         IF r.ok
         THEN /\ stack' = Append(SubSeq(stack, 1, Len(stack) - 2), r.val)
              /\ UNCHANGED outcome
         ELSE Raised(r.err))

\* load_config on the file p: process_includes(raw, src_path) (config.py:97)
StartProcessIncludes ==
    /\ outcome.op = "none"
    /\ \E p \in DOMAIN files :
           /\ stack' = << ProcessIncludesCall(files[p], p) >>
           /\ outcome' = [op |-> "merge.process_includes", path |-> p,
                          status |-> "running", val |-> None]
    /\ UNCHANGED <<environ, files, ctx, log, secVars, mergeVars, heap>>

\* Resolver().resolve(config) on a document that includes the file p
StartResolve ==
    /\ outcome.op = "none"
    /\ \E p \in DOMAIN files :
           /\ stack' = << ResolveCall(
                            Dict(<< << <<"a">>, IncludeSpec(p, NoValue) >> >>)) >>
           /\ outcome' = [op |-> "resolve", path |-> p,
                          status |-> "running", val |-> None]
    /\ UNCHANGED <<environ, files, ctx, log, secVars, mergeVars, heap>>

\* merge.process_includes, lines 83-85 with _load_traditional_include: one
\* entry of incs
LoadTraditionalInclude ==
    /\ Running("merge.process_includes")
    /\ top.incs # <<>>
    /\ Let(_resolve_path(Head(top.incs).v, top.base_path, <<>>).val, LAMBDA path :
       Let(_load_file(path), LAMBDA content :
       IF ~content.ok THEN Raised(content.err)
       ELSE IF needs_processing(content.val)
       THEN Nested(ProcessIncludesCall(content.val, path))
       ELSE Let(deep_merge(top.merged, content.val.entries), LAMBDA m :
            IF ~m.ok THEN Raised("MergeError")
            ELSE Continue([top EXCEPT !.merged = m.val, !.incs = Tail(@)]))))
    /\ UNCHANGED <<environ, files, ctx, log, secVars, mergeVars, heap>>

\* merge.process_includes, lines 89-109: one item of raw
PositionalEntry ==
    /\ Running("merge.process_includes")
    /\ top.incs = <<>>
    /\ top.i <= Len(top.raw)
    /\ LET key == top.raw[top.i][1]
           value == top.raw[top.i][2]
       IN  IF value.t # "include_at"
           THEN Continue([top EXCEPT !.result = Put(@, key, value), !.i = @ + 1])
           ELSE Let(_resolve_path(value.path, top.base_path, top.raw),
                    LAMBDA path :
                IF ~path.ok THEN Raised(path.err)
                ELSE Let(_load_file(path.val), LAMBDA included :
                     IF ~included.ok THEN Raised(included.err)
                     ELSE Nested(ProcessIncludesCall(included.val, path.val))))
    /\ UNCHANGED <<environ, files, ctx, log, secVars, mergeVars, heap>>

\* merge.process_includes, line 112
ReturnProcessIncludes ==
    /\ Running("merge.process_includes")
    /\ top.incs = <<>>
    /\ top.i > Len(top.raw)
    /\ Let(deep_merge(top.merged, top.result), LAMBDA m :
       IF ~m.ok THEN Raised("MergeError") ELSE Return(Dict(m.val)))
    /\ UNCHANGED <<environ, files, ctx, log, secVars, mergeVars, heap>>

\* Resolver._include, lines 40-44: the path of the node, relative to its
\* base path.
IncludedFile(node) ==
    IF node._base_path # NoValue /\ node._base_path # <<>> /\ ~isabs(node.path)
    THEN join(dirname(node._base_path), node.path)
    ELSE node.path

\* Resolver.resolve(dict), lines 85-107: one item of node.  An include is
\* checked and loaded, and process_includes of include.py is called on it
\* (Resolver._include, lines 40-45).
ResolveEntry ==
    /\ Running("resolve")
    /\ top.i <= Len(top.raw)
    /\ LET key == top.raw[top.i][1]
           val == top.raw[top.i][2]
       IN  IF val.t \in { "include", "include_from" }
           THEN IF check_include(policy, IncludedFile(val)) = Deny
                THEN Raised(Deny)
                ELSE IF ~load_raw(IncludedFile(val)).ok
                THEN Raised("IncludeError")
                ELSE Nested(IncludeCall(load_raw(IncludedFile(val)).val,
                                        IncludedFile(val)))
           ELSE Continue([top EXCEPT !.result = Put(@, key, val), !.i = @ + 1])
    /\ UNCHANGED <<environ, files, ctx, log, secVars, mergeVars, heap>>

\* include.process_includes, lines 41-43 with _load_include: one entry of
\* incs.  The file is loaded and stamped; its own include! list stays in it.
LoadInclude ==
    /\ Running("include.process_includes")
    /\ top.incs # <<>>
    /\ Let(_load_include(Head(top.incs), top.base_path, ctx, <<>>), LAMBDA part :
       IF ~part.ok THEN Raised(part.err)
       ELSE Let(deep_merge(top.merged, part.val.entries), LAMBDA m :
            IF ~m.ok THEN Raised("MergeError")
            ELSE Continue([top EXCEPT !.merged = m.val, !.incs = Tail(@)])))
    /\ UNCHANGED <<environ, files, ctx, log, secVars, mergeVars, heap>>

\* include.process_includes, line 44, and Resolver._include, line 46:
\* self.resolve(merged), called where process_includes was.
ReturnInclude ==
    /\ Running("include.process_includes")
    /\ top.incs = <<>>
    /\ Let(deep_merge(top.merged, top.raw), LAMBDA m :
       IF ~m.ok THEN Raised("MergeError")
       ELSE Continue(ResolveCall(Dict(m.val))))
    /\ UNCHANGED <<environ, files, ctx, log, secVars, mergeVars, heap>>

\* Resolver.resolve(dict), line 125
ReturnResolve ==
    /\ Running("resolve")
    /\ top.i > Len(top.raw)
    /\ Return(Dict(top.result))
    /\ UNCHANGED <<environ, files, ctx, log, secVars, mergeVars, heap>>

NextCycle ==
    \/ StartProcessIncludes
    \/ StartResolve
    \/ LoadTraditionalInclude
    \/ PositionalEntry
    \/ ReturnProcessIncludes
    \/ ResolveEntry
    \/ LoadInclude
    \/ ReturnInclude
    \/ ReturnResolve

SpecCycle == InitCycle /\ [][NextCycle]_vars

\* The expansion is not suspended for ever: the interpreter runs the next
\* step of the innermost call.
SpecCycleLive == SpecCycle /\ WF_vars(NextCycle)

----------------------------------------------------------------------------
(* SpecSources: merge_all_sources over mappings the caller passes.  A       *)
(* mapping is an object of the heap; an entry whose value is a mapping      *)
(* holds a reference to that object, as the interpreter's dict does        *)

Ref(id) == [t |-> "ref", id |-> id]

\* The mappings a caller passes: without tag strings, and with no include!
\* entries to load.
DictSources ==
    { Dict(<<>>),
      Dict(<< << IncludeKey, List(<<>>) >>, << <<"a">>, Scalar(1) >> >>) }
    \cup { Dict(<< << <<"a">>, Scalar(n) >> >>) : n \in 1..2 }
    \cup { Dict(<< << <<"a">>, Dict(<< << k, Scalar(1) >> >>) >> >>) :
             k \in { <<"b">>, <<"c">> } }
    \cup { Dict(<< << <<"a">>, Dict(<< << <<"b">>,
                                          Dict(<< << k, Scalar(1) >> >>) >> >>) >>,
                   << <<"c">>, List(<< Scalar(1) >>) >> >>) :
             k \in { <<"b">>, <<"c">> } }

\* dict(): a new object with the entries given.
Alloc(h, entries) == [objects |-> Append(h, entries), id |-> Len(h) + 1]

\* The mapping d built as objects of h, the nested mappings first.
RECURSIVE StoreEntries(_, _, _, _)
StoreEntries(h, entries, i, stored) ==
    IF i > Len(entries) THEN Alloc(h, stored)
    ELSE IF entries[i][2].t = "dict"
    THEN Let(StoreEntries(h, entries[i][2].entries, 1, <<>>), LAMBDA nested :
         StoreEntries(nested.objects, entries, i + 1,
                      Append(stored, << entries[i][1], Ref(nested.id) >>)))
    ELSE StoreEntries(h, entries, i + 1, Append(stored, entries[i]))

\* The caller's list of sources built on the heap.
RECURSIVE StoreAll(_, _, _, _)
StoreAll(h, ds, i, ids) ==
    IF i > Len(ds) THEN [objects |-> h, sources |-> ids]
    ELSE Let(StoreEntries(h, ds[i].entries, 1, <<>>), LAMBDA stored :
         StoreAll(stored.objects, ds, i + 1, Append(ids, stored.id)))

\* The value of the object id: its entries, with the nested mappings in
\* place of the references.
RECURSIVE ValueOf(_, _)
ValueOf(h, id) ==
    Dict([ i \in DOMAIN h[id] |->
             << h[id][i][1],
                IF h[id][i][2].t = "ref" THEN ValueOf(h, h[id][i][2].id)
                ELSE h[id][i][2] >> ])

\* merge.deep_merge(a, b) on the objects a and b, the loop over b.items()
\* from index i on.  Of the cases of the match, the mappings here meet
\* `dict(), dict()` (a recursive merge into the object a holds at key) and
\* the default (the value, or the reference, is assigned).
RECURSIVE deep_merge_objects(_, _, _, _)
deep_merge_objects(h, a, b, i) ==
    IF i > Len(h[b]) THEN h
    ELSE LET key == h[b][i][1]
             val == h[b][i][2]
             existing == Get(h[a], key)
         IN  IF existing.t = "ref" /\ val.t = "ref"
             THEN deep_merge_objects(
                      deep_merge_objects(h, existing.id, val.id, 1), a, b, i + 1)
             ELSE deep_merge_objects([h EXCEPT ![a] = Put(@, key, val)],
                                     a, b, i + 1)

\* include.process_includes(raw, "<dict>") on the object raw whose include!
\* list, if it has one, is empty: the key is popped from raw, and raw is
\* merged into a new mapping.
process_includes_object(h, raw) ==
    Let(Alloc([h EXCEPT ![raw] = Without(@, IncludeKey)], <<>>), LAMBDA merged :
    [objects |-> deep_merge_objects(merged.objects, merged.id, raw, 1),
     id |-> merged.id])

\* sources._process_single_source(src, security_policy) on a mapping:
\* src.copy() is a new object with the entries of src, the references to
\* the nested mappings included; _process_dict_tags returns it as it is.
process_single_object(h, src) ==
    Let(Alloc(h, h[src]), LAMBDA raw :
    IF raw.objects[raw.id] = <<>> THEN Alloc(raw.objects, <<>>)
    ELSE process_includes_object(raw.objects, raw.id))

\* sources.merge_all_sources: the loop over sources from index i on.
RECURSIVE merge_objects(_, _, _, _)
merge_objects(h, sources, i, config) ==
    IF i > Len(sources) THEN [objects |-> h, id |-> config]
    ELSE Let(process_single_object(h, sources[i]), LAMBDA processed :
         IF processed.objects[processed.id] # <<>>
         THEN merge_objects(
                  deep_merge_objects(processed.objects, config, processed.id, 1),
                  sources, i + 1, config)
         ELSE merge_objects(processed.objects, sources, i + 1, config))

\* sources.merge_all_sources(sources, security_policy)
merge_all_objects(h, sources) ==
    Let(Alloc(h, <<>>), LAMBDA config :
    merge_objects(config.objects, sources, 1, config.id))

DictSourceLists ==
    UNION { [ 1..n -> DictSources ] : n \in 1..MaxSources }

InitSources ==
    /\ policy = SecurityPolicy({}, {}, {}, NoneArg, FALSE)
    /\ last = NoCall
    /\ environ = [n \in {} |-> NoValue]
    /\ files = [n \in {} |-> NoValue]
    /\ ctx = [n \in {} |-> NoValue]
    /\ log = <<>>
    /\ outcome = [op |-> "none"]
    /\ IdleMerge
    /\ stack = <<>>
    /\ \E ds \in DictSourceLists : heap = StoreAll(<<>>, ds, 1, <<>>)

\* merge_all_sources(sources, security_policy) on the caller's mappings;
\* before is what each of them held at the call.
MergeAllDictSources ==
    /\ outcome.op = "none"
    /\ Let(merge_all_objects(heap.objects, heap.sources), LAMBDA config :
       /\ heap' = [heap EXCEPT !.objects = config.objects]
       /\ outcome' = [op |-> "merge_all_sources", status |-> "returned",
                      before |-> [ i \in DOMAIN heap.sources |->
                                     ValueOf(heap.objects, heap.sources[i]) ],
                      val |-> ValueOf(config.objects, config.id)])
    /\ UNCHANGED <<environ, files, ctx, log, stack, secVars, mergeVars>>

NextSources == MergeAllDictSources

SpecSources == InitSources /\ [][NextSources]_vars

----------------------------------------------------------------------------
(* SpecDictTags: _process_dict_tags on a mapping passed as a source: the    *)
(* mapping written out as YAML text line by line, and the text parsed by    *)
(* the tag-aware loader.  The strings hold letters, digits and "!", "@",    *)
(* "." and " "; a sequence holds no sequence                                *)

Spaces(n) == [ i \in 1..(2 * n) |-> " " ]

\* The plain scalars the loader's implicit resolver takes for a bool and for
\* null (YAML 1.1).
BoolWords ==
    { <<"y", "e", "s">>, <<"Y", "e", "s">>, <<"Y", "E", "S">>,
      <<"n", "o">>, <<"N", "o">>, <<"N", "O">>,
      <<"t", "r", "u", "e">>, <<"T", "r", "u", "e">>, <<"T", "R", "U", "E">>,
      <<"f", "a", "l", "s", "e">>, <<"F", "a", "l", "s", "e">>,
      <<"F", "A", "L", "S", "E">>,
      <<"o", "n">>, <<"O", "n">>, <<"O", "N">>,
      <<"o", "f", "f">>, <<"O", "f", "f">>, <<"O", "F", "F">> }
TrueWords ==
    { w \in BoolWords :
        \/ w[1] \in {"y", "Y", "t", "T"}
        \/ (Len(w) = 2 /\ w[2] \in {"n", "N"}) }
NullWords ==
    { <<>>, <<"~">>, <<"n", "u", "l", "l">>, <<"N", "u", "l", "l">>,
      <<"N", "U", "L", "L">> }

IsInt(s) ==
    \/ IsLiteral(s)
    \/ Len(s) > 1 /\ s[1] \in {"-", "+"} /\ IsLiteral(Tail(s))

\* What the implicit resolver makes of the plain scalar s.
implicit(s) ==
    IF s \in BoolWords THEN Bool(s \in TrueWords)
    ELSE IF s \in NullWords THEN None
    ELSE IF IsInt(s)
    THEN IF s[1] = "-" THEN Scalar(0 - IntOf(Tail(s)))
         ELSE IF s[1] = "+" THEN Scalar(IntOf(Tail(s)))
         ELSE Scalar(IntOf(s))
    ELSE Str(s)

\* yaml.safe_dump(val, default_flow_style=True) of a string, stripped and
\* without the document end marker (lines 40-46): the string itself when the
\* loader would read it back as that string, else in single quotes.
safe_dump(s) ==
    IF implicit(s) = Str(s) THEN s ELSE <<"'">> \o s \o <<"'">>

\* _process_dict_tags.dict_to_yaml_text.format_value(val)
format_value(val) ==
    IF val.t = "str"
    THEN IF StartsWith(val.v, <<"!">>) THEN val.v ELSE safe_dump(val.v)
    ELSE str(val)

\* _process_dict_tags.dict_to_yaml_text(obj, indent) for a mapping, as the
\* lines of the text: the loop over obj.items() from index i on, and the
\* loop over the items of a sequence.  The text of an empty mapping is the
\* empty string, one empty line.
RECURSIVE dict_to_yaml_text(_, _)
RECURSIVE entries_text(_, _, _)
RECURSIVE items_text(_, _, _)

items_text(items, i, indent) ==
    IF i > Len(items) THEN <<>>
    ELSE (IF items[i].t = "dict"
          THEN << Spaces(indent + 1) \o <<"-">> >>
               \o dict_to_yaml_text(items[i], indent + 2)
          ELSE << Spaces(indent + 1) \o <<"-", " ">> \o format_value(items[i]) >>)
         \o items_text(items, i + 1, indent)

entries_text(entries, i, indent) ==
    IF i > Len(entries) THEN <<>>
    ELSE LET key == entries[i][1]
             value == entries[i][2]
         IN  (IF value.t = "dict"
              THEN << Spaces(indent) \o key \o <<":">> >>
                   \o dict_to_yaml_text(value, indent + 1)
              ELSE IF value.t = "list"
              THEN << Spaces(indent) \o key \o <<":">> >>
                   \o items_text(value.items, 1, indent)
              ELSE << Spaces(indent) \o key \o <<":", " ">> \o format_value(value) >>)
             \o entries_text(entries, i + 1, indent)

dict_to_yaml_text(obj, indent) ==
    IF obj.entries = <<>> THEN << <<>> >>
    ELSE entries_text(obj.entries, 1, indent)

\* The column a line starts at, and the line from there.
RECURSIVE Indentation(_)
Indentation(line) ==
    IF line # <<>> /\ Head(line) = " " THEN 1 + Indentation(Tail(line)) ELSE 0

Content(line) == From(line, Indentation(line) + 1)

\* The scalar the loader constructs of the text s of a value: a quoted
\* string, a tagged scalar, or a plain scalar resolved implicitly.  Of the
\* tags, !@ (tags.construct_callspec on a scalar node) and !include are
\* told here; a tag without a constructor raises.
scalar(s) ==
    IF Head(s) = "'" THEN Returned(Str(SubSeq(s, 2, Len(s) - 1)))
    ELSE IF Head(s) = "!"
    THEN Let(IF Has(s, " ") THEN FirstIndex(s, " ") ELSE Len(s) + 1, LAMBDA k :
         Let(SubSeq(s, 1, k - 1), LAMBDA tag :
         Let(strip(From(s, k + 1)), LAMBDA val :
         IF StartsWith(tag, <<"!", "@">>) /\ Len(tag) > 2
         THEN Returned(CallSpec(From(tag, 3),
                                IF val = <<>> THEN <<>> ELSE << Str(val) >>, <<>>))
         ELSE IF tag = <<"!", "i", "n", "c", "l", "u", "d", "e">>
         THEN Returned(IncludeSpec(val, NoValue))
         ELSE Raise("ConstructorError"))))
    ELSE Returned(implicit(s))

Node(v, next) == [ok |-> TRUE, val |-> v, next |-> next]

\* The first line from i on that is not empty, or the line after the last.
RECURSIVE SkipEmpty(_, _)
SkipEmpty(lines, i) ==
    IF i <= Len(lines) /\ Content(lines[i]) = <<>> THEN SkipEmpty(lines, i + 1)
    ELSE i

\* The loader on the lines from i on: the node that starts there at a
\* column of least min (null when there is none), a block mapping at the
\* column ind, a block sequence at the column ind.
RECURSIVE parse_node(_, _, _)
RECURSIVE parse_mapping(_, _, _, _)
RECURSIVE parse_sequence(_, _, _, _)

parse_node(lines, i, min) ==
    Let(SkipEmpty(lines, i), LAMBDA j :
    IF j > Len(lines) \/ Indentation(lines[j]) < min THEN Node(None, j)
    ELSE IF Content(lines[j]) = <<"-">>
            \/ StartsWith(Content(lines[j]), <<"-", " ">>)
    THEN parse_sequence(lines, j, Indentation(lines[j]), <<>>)
    ELSE parse_mapping(lines, j, Indentation(lines[j]), <<>>))

parse_mapping(lines, i, ind, entries) ==
    Let(SkipEmpty(lines, i), LAMBDA j :
    IF j > Len(lines) \/ Indentation(lines[j]) # ind THEN Node(Dict(entries), j)
    ELSE Let(Content(lines[j]), LAMBDA line :
         Let(FirstIndex(line, ":"), LAMBDA k :
         IF k = Len(line)
         THEN Then(parse_node(lines, j + 1, ind + 1), LAMBDA nested :
              parse_mapping(lines, nested.next, ind,
                            Put(entries, SubSeq(line, 1, k - 1), nested.val)))
         ELSE Then(scalar(From(line, k + 2)), LAMBDA value :
              parse_mapping(lines, j + 1, ind,
                            Put(entries, SubSeq(line, 1, k - 1), value.val))))))

parse_sequence(lines, i, ind, items) ==
    Let(SkipEmpty(lines, i), LAMBDA j :
    IF j > Len(lines) \/ Indentation(lines[j]) # ind THEN Node(List(items), j)
    ELSE Let(Content(lines[j]), LAMBDA line :
         IF line = <<"-">>
         THEN Then(parse_node(lines, j + 1, ind + 1), LAMBDA nested :
              parse_sequence(lines, nested.next, ind, Append(items, nested.val)))
         ELSE Then(scalar(From(line, 3)), LAMBDA value :
              parse_sequence(lines, j + 1, ind, Append(items, value.val)))))

\* loader.get_single_data() on the text
get_single_data(lines) ==
    Then(parse_node(lines, 1, 0), LAMBDA document : Returned(document.val))

\* sources._process_dict_tags(data, security_policy)
_process_dict_tags(data) ==
    IF ~has_yaml_tags(data) THEN Returned(data)
    ELSE get_single_data(dict_to_yaml_text(data, 0))

TagString == Str(<<"!", "@", "a", ".", "b", " ", "c">>)

\* The values of a mapping that are no tag strings.
TagLeaves ==
    { None, Bool(TRUE), Bool(FALSE), Scalar(0), Scalar(5), Scalar(0 - 3),
      Str(<<"h">>), Str(<<"y", "e", "s">>), Str(<<"5">>), Str(<<>>),
      Str(<<"N", "o", "n", "e">>), Str(<<"a", " ", "b">>) }

TagValues ==
    TagLeaves
    \cup { Dict(<<>>), List(<<>>) }
    \cup { Dict(<< << <<"b">>, v >> >>) : v \in TagLeaves \cup { Dict(<<>>) } }
    \cup { List(<< Scalar(1), v >>) : v \in TagLeaves }
    \cup { List(<< Dict(<< << <<"b">>, v >> >>) >>) : v \in TagLeaves }

\* Mappings with a tag string beside, around or inside the value, mappings
\* with a tag that has no constructor, and mappings without a tag string.
TaggedData ==
    { Dict(<< << <<"t">>, TagString >>, << <<"v">>, v >> >>) : v \in TagValues }
    \cup { Dict(<< << <<"v">>, v >>, << <<"t">>, TagString >> >>) :
             v \in TagValues }
    \cup { Dict(<< << <<"k">>, Dict(<< << <<"t">>, TagString >>,
                                      << <<"v">>, v >> >>) >> >>) :
             v \in TagLeaves }
    \cup { Dict(<< << <<"l">>, List(<< TagString, v >>) >> >>) : v \in TagLeaves }
    \cup { Dict(<< << <<"t">>, Str(s) >>, << <<"v">>, Scalar(1) >> >>) :
             s \in { <<"!", "x">>, <<"!", "i", "n", "c", "l", "u", "d", "e", " ", "a">>,
                     <<"!", "@", "a", ".", "b">> } }
    \cup { Dict(<< << <<"v">>, v >> >>) : v \in TagValues }

InitDictTags ==
    /\ policy = SecurityPolicy({}, {}, {}, NoneArg, FALSE)
    /\ last = NoCall
    /\ environ = [n \in {} |-> NoValue]
    /\ files = [n \in {} |-> NoValue]
    /\ ctx = [n \in {} |-> NoValue]
    /\ log = <<>>
    /\ outcome = [op |-> "none"]
    /\ IdleMerge
    /\ stack = <<>>
    /\ heap = NoHeap

\* _process_dict_tags(data, security_policy) on a mapping
ProcessDictTags ==
    /\ outcome.op = "none"
    /\ \E data \in TaggedData :
           Let(_process_dict_tags(data), LAMBDA r :
           outcome' = [op |-> "_process_dict_tags", data |-> data,
                       status |-> IF r.ok THEN "returned" ELSE r.err,
                       val |-> IF r.ok THEN r.val ELSE None])
    /\ UNCHANGED <<environ, files, ctx, log, stack, heap, secVars, mergeVars>>

NextDictTags == ProcessDictTags

SpecDictTags == InitDictTags /\ [][NextDictTags]_vars

----------------------------------------------------------------------------
(* Claims on the security policy *)

\* Glob matching stated on its own: the pattern's elements cut the whole
\* string into consecutive pieces, a star taking any piece, every other
\* element exactly one character that it accepts.
GlobAccepts(s, p) ==
    \E cut \in [0..Len(p) -> 0..Len(s)] :
        /\ cut[0] = 0
        /\ cut[Len(p)] = Len(s)
        /\ \A i \in 1..Len(p) :
            /\ cut[i-1] <= cut[i]
            /\ p[i] # "*" =>
                /\ cut[i] = cut[i-1] + 1
                /\ \/ p[i] = "?"
                   \/ IsClass(p[i]) /\ s[cut[i]] \in ClassOf(p[i])
                   \/ ~IsClass(p[i]) /\ s[cut[i]] = p[i]

AllowSet(op) ==
    CASE op = "env"     -> policy.allowed_env_vars
      [] op = "import"  -> policy.allowed_imports
      [] op = "include" -> policy.allowed_include_paths
      [] OTHER          -> {}

GlobAllowed(op, v) == \E pat \in AllowSet(op) : GlobAccepts(v, pat)

\* C1: in restrictive mode check_import(v) and check_include(v) return
\* silently iff v glob-matches, as a whole, some pattern of the category's
\* allow-set, and raise PermissionError otherwise; an empty allow-set denies
\* every value.
C1_RestrictiveAllowlist ==
    (policy.restrictive /\ last.op \in {"import", "include"}) =>
        /\ last.res = Permit <=> GlobAllowed(last.op, last.arg)
        /\ last.res \in {Permit, Deny}
        /\ AllowSet(last.op) = {} => last.res = Deny

\* C1 witness: a restrictive policy let a path through on a wildcard
\* pattern that is not the path itself.
C1_Witness ==
    /\ policy.restrictive
    /\ last.op = "include"
    /\ last.res = Permit
    /\ last.arg \notin policy.allowed_include_paths

C7_EnvVarGlob ==
    (policy.restrictive /\ last.op = "env") =>
        (last.res = Permit <=> GlobAllowed("env", last.arg))

----------------------------------------------------------------------------
(* Claims on the merge engine *)

Merged == mres.op = "deep_merge"
MergeReturned == Merged /\ mres.out.ok
OnlyInBase == KeysOf(mbase) \ KeysOf(mover)
OnlyInOverlay == KeysOf(mover) \ KeysOf(mbase)

\* C8: where the base value at a key is a sequence and the overlay value an
\* ExtendSpec, the result at that key is the sequence base + overlay.items;
\* where the base value is a mapping and the overlay value a PatchSpec, the
\* result is exactly the patch's mapping.
C8_ExtendPatch ==
    MergeReturned =>
        \A k \in KeysOf(mover) :
            LET b == Get(mbase, k)
                o == Get(mover, k)
                r == Get(mres.out.val, k)
            IN  /\ (b.t = "list" /\ o.t = "extend") =>
                    /\ r.t = "list"
                    /\ Len(r.items) = Len(b.items) + Len(o.items)
                    /\ SubSeq(r.items, 1, Len(b.items)) = b.items
                    /\ SubSeq(r.items, Len(b.items) + 1, Len(r.items)) = o.items
                /\ (b.t = "dict" /\ o.t = "patch") =>
                    /\ r.t = "dict"
                    /\ r.entries = o.mapping

\* C8 witness: one merge extended a non-empty sequence by a non-empty
\* ExtendSpec and patched a mapping with a PatchSpec that drops one of its keys.
C8_Witness ==
    /\ MergeReturned
    /\ \E k \in KeysOf(mover) :
        /\ Get(mbase, k).t = "list" /\ Get(mover, k).t = "extend"
        /\ Get(mbase, k).items # <<>> /\ Get(mover, k).items # <<>>
    /\ \E k \in KeysOf(mover) :
        /\ Get(mbase, k).t = "dict" /\ Get(mover, k).t = "patch"
        /\ KeysOf(Get(mbase, k).entries) \ KeysOf(Get(mover, k).mapping) # {}

\* C9 as stated: every key present only in base is left untouched, and every
\* key present only in overlay is copied as-is into the result, whatever its
\* value: no such key makes the merge fail.
C9_FrameAnyValue ==
    Merged =>
        /\ \A k \in OnlyInOverlay :
              ~(~mres.out.ok /\ mres.out.key = k)
        /\ mres.out.ok =>
              /\ \A k \in OnlyInBase : Get(mres.out.val, k) = Get(mbase, k)
              /\ \A k \in OnlyInOverlay : Get(mres.out.val, k) = Get(mover, k)

\* C9 amended: deep_merge leaves every key present only in base untouched and
\* copies every key present only in overlay as-is into the result when the
\* overlay value is a scalar, a mapping, a sequence or a CallSpec; a key
\* present only in overlay whose value is an ExtendSpec or a PatchSpec is not
\* copied: deep_merge raises MergeError.
C9_FrameAmended ==
    Merged =>
        /\ (\E k \in OnlyInOverlay : Get(mover, k).t \in {"extend", "patch"})
              => ~mres.out.ok
        /\ mres.out.ok =>
              /\ \A k \in OnlyInBase :
                    /\ HasKey(mres.out.val, k)
                    /\ Get(mres.out.val, k) = Get(mbase, k)
              /\ \A k \in OnlyInOverlay :
                    /\ HasKey(mres.out.val, k)
                    /\ Get(mres.out.val, k) = Get(mover, k)
              /\ KeysOf(mres.out.val) = KeysOf(mbase) \cup KeysOf(mover)

\* C9 witness: a merge returned with a key only in base and a key only in
\* overlay, the latter holding a CallSpec.
C9_Witness ==
    /\ MergeReturned
    /\ OnlyInBase # {}
    /\ \E k \in OnlyInOverlay : Get(mover, k).t = "call"

\* The MergeErrors a merge of b into a can meet: at each key of b, and in the
\* merges deep_merge makes of nested mappings.
RECURSIVE Conflicts(_, _)
Conflicts(a, b) ==
    UNION { LET k == b[i][1]
                o == b[i][2]
                e == Get(a, k)
            IN  (IF o.t = "patch" /\ e.t \notin {"dict", "call"}
                 THEN {MergeError("Cannot patch non-dict", k)} ELSE {})
                \cup
                (IF o.t = "extend" /\ e.t # "list"
                 THEN {MergeError("Cannot extend non-list", k)} ELSE {})
                \cup
                (IF o.t = "dict" /\ e.t = "dict"
                 THEN Conflicts(e.entries, o.entries) ELSE {})
                \cup
                (IF o.t = "dict" /\ e.t = "call"
                 THEN Conflicts(e.kwargs, o.entries) ELSE {})
          : i \in DOMAIN b }

\* C10: deep_merge raises "Cannot patch non-dict at '<key>'" exactly when the
\* overlay value at the key is a PatchSpec and the base value there is neither
\* a mapping nor a CallSpec, and "Cannot extend non-list at '<key>'" exactly
\* when the overlay value is an ExtendSpec and the base value is not a
\* sequence: it raises one of the errors its merges meet, and returns iff
\* they meet none.
C10_MergeErrors ==
    Merged =>
        /\ mres.out.ok <=> Conflicts(mbase, mover) = {}
        /\ ~mres.out.ok => mres.out \in Conflicts(mbase, mover)
        /\ \A k \in KeysOf(mover) :
              (Get(mover, k).t = "patch" /\ Get(mbase, k).t \notin {"dict", "call"}
               /\ \A j \in KeysOf(mover) \ {k} :
                      Get(mover, j).t \in {"scalar", "list", "call"})
              => mres.out = MergeError("Cannot patch non-dict", k)
        /\ \A k \in KeysOf(mover) :
              (Get(mover, k).t = "extend" /\ Get(mbase, k).t # "list"
               /\ \A j \in KeysOf(mover) \ {k} :
                      Get(mover, j).t \in {"scalar", "list", "call"})
              => mres.out = MergeError("Cannot extend non-list", k)

\* C10 witness: a PatchSpec over a sequence was refused in a merge whose
\* overlay also holds a mapping for a mapping of the base.
C10_Witness ==
    /\ Merged
    /\ ~mres.out.ok
    /\ mres.out.err = "Cannot patch non-dict"
    /\ Get(mbase, mres.out.key).t = "list"
    /\ \E j \in KeysOf(mover) : Get(mover, j).t = "dict" /\ Get(mbase, j).t = "dict"

\* C11: where the base value at a key is a CallSpec, an overlay PatchSpec
\* puts its mapping in the place of the CallSpec's keyword arguments and an
\* overlay plain mapping is deep-merged into them, nested mappings merged and
\* not replaced; either way the key still holds the CallSpec, its path and
\* its positional arguments as they were.
C11_CallSpecKwargs ==
    MergeReturned =>
        \A k \in KeysOf(mover) :
            LET b == Get(mbase, k)
                o == Get(mover, k)
                r == Get(mres.out.val, k)
            IN  /\ (b.t = "call" /\ o.t = "patch") =>
                    r = CallSpec(b.path, b.args, o.mapping)
                /\ (b.t = "call" /\ o.t = "dict") =>
                    /\ r.t = "call" /\ r.path = b.path /\ r.args = b.args
                    /\ deep_merge(b.kwargs, o.entries).ok
                    /\ r.kwargs = deep_merge(b.kwargs, o.entries).val
                    /\ KeysOf(r.kwargs) = KeysOf(b.kwargs) \cup KeysOf(o.entries)
                    /\ \A j \in KeysOf(b.kwargs) \ KeysOf(o.entries) :
                          Get(r.kwargs, j) = Get(b.kwargs, j)
                    /\ \A j \in KeysOf(o.entries) :
                          IF Get(b.kwargs, j).t = "dict" /\ Get(o.entries, j).t = "dict"
                          THEN /\ Get(r.kwargs, j).t = "dict"
                               /\ KeysOf(Get(r.kwargs, j).entries)
                                    = KeysOf(Get(b.kwargs, j).entries)
                                      \cup KeysOf(Get(o.entries, j).entries)
                          ELSE Get(r.kwargs, j) = Get(o.entries, j)

\* C11 witness: one merge patched a CallSpec whose keyword arguments hold a
\* key the patch lacks, and merged a mapping into the nested keyword
\* arguments of a CallSpec that has a positional argument.
C11_Witness ==
    /\ MergeReturned
    /\ \E k \in KeysOf(mover) :
        /\ Get(mbase, k).t = "call" /\ Get(mover, k).t = "patch"
        /\ KeysOf(Get(mbase, k).kwargs) \ KeysOf(Get(mover, k).mapping) # {}
    /\ \E k \in KeysOf(mover) :
        /\ Get(mbase, k).t = "call" /\ Get(mover, k).t = "dict"
        /\ Get(mbase, k).args # <<>>
        /\ \E j \in KeysOf(Get(mover, k).entries) :
              /\ Get(Get(mbase, k).kwargs, j).t = "dict"
              /\ Get(Get(mover, k).entries, j).t = "dict"

----------------------------------------------------------------------------
(* Claims on the gates in front of privileged actions *)

\* C6 as stated: an !env tag reads the process environment only after
\* check_env_var(NAME) permitted: for a variable that is set, under a policy
\* that denies NAME the load raises PermissionError and the variable's value
\* does not become the tag's value; under a policy that allows NAME the value
\* is returned.
C6_EnvGated ==
    (outcome.op = "construct_env" /\ outcome.var # NoValue
     /\ environ[outcome.var] # NoValue) =>
        /\ check_env_var(policy, outcome.var) = Deny =>
              /\ outcome.status = "PermissionError"
              /\ outcome.val # environ[outcome.var]
        /\ check_env_var(policy, outcome.var) = Permit =>
              /\ outcome.status = "returned"
              /\ outcome.val = environ[outcome.var]

\* A template whose variables are whole dotted segments, each a name the
\* context holds: "a.$b", "$a.$b".
WholeSegments(tpl) ==
    \A i \in 1..Len(split(tpl, ".")) :
        LET seg == split(tpl, ".")[i] IN
        \/ ~Has(seg, "$")
        \/ /\ Head(seg) = "$"
           /\ ~Has(Tail(seg), "$")
           /\ Tail(seg) \in DOMAIN ctx

\* The dotted path such a template stands for: segment by segment, a
\* variable gives way to the text of its value.
Concrete(tpl) ==
    join_dots([ i \in 1..Len(split(tpl, ".")) |->
                  LET seg == split(tpl, ".")[i] IN
                  IF Has(seg, "$") THEN str(ctx[Tail(seg)]) ELSE seg ])

\* The symbol of the node resolved comes from the import of a dotted path:
\* the path of an ImportSpec or of a CallSpec without placeholders, the
\* string held by the single variable of a CallSpec, or the path a
\* template of whole segments stands for.
ImportedPath ==
    LET node == outcome.node IN
    IF node.t = "import" \/ ~Has(node.path, "$") THEN node.path
    ELSE IF ~Has(node.path, ".") THEN ctx[Tail(node.path)].v
    ELSE Concrete(node.path)

ByImport ==
    /\ outcome.op = "resolve"
    /\ outcome.node.t \in {"import", "call"}
    /\ LET path == outcome.node.path IN
       \/ outcome.node.t = "import"
       \/ ~Has(path, "$")
       \/ /\ Head(path) = "$" /\ ~Has(path, ".")
          /\ Tail(path) \in DOMAIN ctx
          /\ ctx[Tail(path)].t = "str"
       \/ /\ Has(path, ".")
          /\ Head(path) # "$" \/ Has(Tail(path), "$")
          /\ WholeSegments(path)

\* C4: when the symbol of a CallSpec or ImportSpec comes from the import of
\* a dotted path, the first thing the resolver does is check_import on the
\* concrete path (the template's variables replaced by their values); every
\* import is of the path check_import permitted immediately before it; a
\* denying check_import is the last event, the resolution raises
\* PermissionError, and so nothing is imported or invoked after it; and an
\* ImportSpec that resolves yields the imported symbol with nothing invoked.
C4_ImportGated ==
    outcome.op = "resolve" =>
        /\ ByImport =>
              /\ log # <<>>
              /\ log[1] = Event("check_import", ImportedPath,
                                check_import(policy, ImportedPath))
        /\ \A i \in 1..Len(log) :
              log[i].ev = "import" =>
                  /\ i > 1
                  /\ log[i - 1] = Event("check_import", log[i].arg, Permit)
                  /\ check_import(policy, log[i].arg) = Permit
        /\ \A i \in 1..Len(log) :
              (log[i].ev = "check_import"
               /\ check_import(policy, log[i].arg) = Deny) =>
                  /\ log[i].res = Deny
                  /\ i = Len(log)
                  /\ outcome.status = "PermissionError"
        /\ (outcome.node.t = "import" /\ outcome.status = "returned") =>
              /\ outcome.val = Symbol(outcome.node.path)
              /\ \A i \in 1..Len(log) : log[i].ev # "invoke"

\* C4 witness: a CallSpec with the template a.$b, b holding "b": a.b was
\* checked and permitted, then imported, then invoked.
C4_Witness ==
    /\ outcome.op = "resolve"
    /\ outcome.node.t = "call"
    /\ outcome.node.path = <<"a", ".", "$", "b">>
    /\ outcome.status = "returned"
    /\ policy.restrictive
    /\ Len(log) >= 3
    /\ log[1] = Event("check_import", <<"a", ".", "b">>, Permit)
    /\ log[2] = Event("import", <<"a", ".", "b">>, "imported")
    /\ \E i \in 3..Len(log) : log[i] = Event("invoke", <<"a", ".", "b">>, "returned")

\* C5 as stated: every evaluation of an expression comes after
\* check_expression permitted that expression, whether the ${...} token is
\* the whole string or sits in literal text; and under a policy with
\* allow_expressions false no expression is evaluated.
C5_ExpressionGated ==
    outcome.op = "resolve" =>
        /\ \A i \in 1..Len(log) :
              log[i].ev = "evaluate" =>
                  \E j \in 1..(i - 1) :
                      log[j] = Event("check_expression", log[i].arg, Permit)
        /\ ~policy.allow_expressions =>
              \A i \in 1..Len(log) : log[i].ev # "evaluate"

\* C3 as stated: an include file is opened, by whichever include kind, only
\* if check_include permits its resolved path: no file whose path the policy
\* denies is opened.
C3_IncludeGated ==
    \A i \in 1..Len(log) :
        (log[i].ev = "open" /\ log[i].res = "opened") =>
            check_include(policy, log[i].arg) = Permit


----------------------------------------------------------------------------
(* Claims on the command-line overrides *)

\* The override has the form pyamlo.<path>=<value>.
IsPrefixed(o) == Has(o, "=") /\ StartsWith(split_once(o, "=")[1], OverridePrefix)

\* The keys of the dotted path of a prefixed override, and its value text.
PathOf(o) == split(From(split_once(o, "=")[1], Len(OverridePrefix) + 1), ".")
TextOf(o) == split_once(o, "=")[2]

\* p is a proper prefix of q.
ProperPrefix(p, q) == Len(p) < Len(q) /\ SubSeq(q, 1, Len(p)) = p

\* What a nested mapping holds at a path of keys; Missing where it holds
\* nothing there.
Missing == [t |-> "missing"]

RECURSIVE at_path(_, _)
at_path(d, parts) ==
    IF parts = <<>> THEN d
    ELSE IF d.t # "dict" \/ ~HasKey(d.entries, parts[1]) THEN Missing
    ELSE at_path(Get(d.entries, parts[1]), Tail(parts))

\* The entries that end up in the mapping: the prefixed ones that no later
\* entry of the same path follows.
LastOfPath(os, i) ==
    /\ IsPrefixed(os[i])
    /\ \A j \in (i + 1)..Len(os) : IsPrefixed(os[j]) => PathOf(os[j]) # PathOf(os[i])

\* One of the two parse_cli_overrides has run.
OverridesParsed ==
    outcome.op \in {"cli.parse_cli_overrides", "override.parse_cli_overrides"}

\* Overrides that are all key=value, whose values all parse, and of which no
\* path is a leaf in one entry and an intermediate key in another.
Compatible(os) ==
    /\ \A i \in 1..Len(os) : Has(os[i], "=")
    /\ \A i \in 1..Len(os) : IsPrefixed(os[i]) => yaml_load_value(TextOf(os[i])).ok
    /\ \A i, j \in 1..Len(os) :
          (IsPrefixed(os[i]) /\ IsPrefixed(os[j])) =>
              ~ProperPrefix(PathOf(os[i]), PathOf(os[j]))

\* C14 as stated: parse_cli_overrides returns a nested mapping that holds
\* nothing of the entries without the pyamlo. prefix and holds, at the dotted
\* path of every other entry, that entry's parsed value: the last entry of a
\* path wins, and entries of different paths, sharing intermediate keys or
\* not, are all there.
C14_NestedMapping ==
    (OverridesParsed /\ Compatible(outcome.overrides)) =>
        /\ outcome.status = "returned"
        /\ \A i \in 1..Len(outcome.overrides) :
              LastOfPath(outcome.overrides, i) =>
                  at_path(outcome.val, PathOf(outcome.overrides[i]))
                      = construct_scalar(TextOf(outcome.overrides[i])).val
        /\ \A k \in KeysOf(outcome.val.entries) :
              \E i \in 1..Len(outcome.overrides) :
                  /\ IsPrefixed(outcome.overrides[i])
                  /\ PathOf(outcome.overrides[i])[1] = k

\* Overrides that are all key=value and whose prefixed entries have roots of
\* their own, so that no entry meets another in the mapping.
Independent(os) ==
    /\ \A i \in 1..Len(os) : Has(os[i], "=")
    /\ \A i, j \in 1..Len(os) :
          (i # j /\ IsPrefixed(os[i]) /\ IsPrefixed(os[j])) =>
              PathOf(os[i])[1] # PathOf(os[j])[1]

\* C15 as stated: OverrideError is raised only for an entry without "=", and
\* an entry whose value the tag-aware loader fails to parse, for whatever
\* reason, raises nothing and is held in the mapping as the raw string.
C15_RawStringFallback ==
    OverridesParsed =>
        /\ outcome.status = "OverrideError" =>
              \E i \in 1..Len(outcome.overrides) : ~Has(outcome.overrides[i], "=")
        /\ Independent(outcome.overrides) =>
              /\ outcome.status = "returned"
              /\ \A i \in 1..Len(outcome.overrides) :
                    (/\ IsPrefixed(outcome.overrides[i])
                     /\ ~yaml_load_value(TextOf(outcome.overrides[i])).ok) =>
                        at_path(outcome.val, PathOf(outcome.overrides[i]))
                            = Str(TextOf(outcome.overrides[i]))


----------------------------------------------------------------------------
(* Claims on loading *)

\* The leaves of a document: the paths of keys that end in a value that is
\* no mapping, each with its value.
RECURSIVE leaves(_, _)
leaves(d, prefix) ==
    IF d.t = "dict"
    THEN UNION { leaves(d.entries[i][2], Append(prefix, d.entries[i][1])) :
                   i \in DOMAIN d.entries }
    ELSE { <<prefix, d>> }

NoContext == [n \in {} |-> NoValue]

\* One of the operations that merge the sources has run and has merged them.
SourcesMerged ==
    /\ outcome.op \in {"merge_all_sources(paths)", "merge_all_sources(dicts)",
                       "load_config"}
    /\ outcome.merged # None

\* What the i-th source defines: its document with its includes processed,
\* as the operation that ran processes them.
Defines(i) ==
    IF outcome.op = "load_config"
    THEN ValOf(merge_process_includes(
                   set_base_paths(files[outcome.sources[i]], outcome.sources[i]),
                   outcome.sources[i], NoContext, <<>>))
    ELSE IF outcome.op = "merge_all_sources(dicts)"
    THEN ValOf(include_process_includes(files[outcome.sources[i]], DictPath,
                                        NoContext, <<>>))
    ELSE ValOf(include_process_includes(
                   set_base_paths(files[outcome.sources[i]], outcome.sources[i]),
                   outcome.sources[i], NoContext, <<>>))

\* The document d holds nothing at the path p and no value other than a
\* mapping on the way to it.
Untouched(d, p) ==
    \A k \in 1..Len(p) :
        Let(at_path(d, SubSeq(p, 1, k)), LAMBDA v :
        IF k < Len(p) THEN v = Missing \/ v.t = "dict" ELSE v = Missing)

Refs(config) ==
    { lf \in leaves(config, <<>>) :
        lf[2].t = "str" /\ StartsWith(lf[2].v, <<"$", "{">>) }

\* The keys of the path a reference names.
RefPath(v) == split(SubSeq(v.v, 3, Len(v.v) - 1), ".")

IndexOf(d, k) == CHOOSE i \in DOMAIN d : d[i][1] = k

\* In the traversal of the mapping d the path k, which d holds, is met
\* before the path r and is not on the way to it.
RECURSIVE Precedes(_, _, _)
Precedes(d, k, r) ==
    IF k[1] # r[1] THEN IndexOf(d.entries, k[1]) < IndexOf(d.entries, r[1])
    ELSE /\ Len(k) > 1
         /\ Len(r) > 1
         /\ Precedes(Get(d.entries, k[1]), Tail(k), Tail(r))

\* The path is one an override names.
Overridden(path) ==
    \E i \in DOMAIN outcome.overrides :
        IsPrefixed(outcome.overrides[i]) /\ PathOf(outcome.overrides[i]) = path

\* The reference names a path the configuration holds and meets before it.
Backward(config, lf) ==
    /\ at_path(config, RefPath(lf[2])) # Missing
    /\ Precedes(config, RefPath(lf[2]), lf[1])

\* load_config has merged the sources and applied a list of overrides to
\* what they left.
OverridesApplied ==
    /\ outcome.op = "load_config"
    /\ outcome.overrides # <<>>
    /\ outcome.config # None

\* The resolved configuration holds the value of every override at its key,
\* and every reference to the key has become that value.
OverridesHeld ==
    /\ outcome.status = "returned"
    /\ \A i \in DOMAIN outcome.overrides :
          LastOfPath(outcome.overrides, i) =>
              /\ at_path(outcome.val, PathOf(outcome.overrides[i]))
                     = construct_scalar(TextOf(outcome.overrides[i])).val
              /\ \A lf \in Refs(outcome.config) :
                    RefPath(lf[2]) = PathOf(outcome.overrides[i]) =>
                        at_path(outcome.val, lf[1])
                            = construct_scalar(TextOf(outcome.overrides[i])).val

C19_ExitCodes ==
    outcome.op = "main" =>
        /\ outcome.config_files = <<>> =>
              outcome.exit.code = 1 /\ outcome.exit.usage
        /\ outcome.load = "returned" => outcome.exit.code = 0
        /\ outcome.load \notin {"not called", "returned"} =>
              /\ outcome.exit.code = 1
              /\ outcome.exit.stderr = "Error loading configuration: "


\* A Resolver of its own has resolved the configuration outcome.config, or
\* has raised on the way; every reference of the configuration names a path
\* that the configuration holds.
ConfigResolved ==
    /\ outcome.op = "load_config"
    /\ outcome.config # None
    /\ \A lf \in Refs(outcome.config) :
          at_path(outcome.config, RefPath(lf[2])) # Missing

\* C16 as stated: resolution is one pass in document order.  A reference
\* resolves if and only if its path was resolved earlier in the traversal,
\* and then to the value resolved there; a reference to a later sibling, at
\* the root or in a nested mapping, or to a path not yet resolved fails with
\* the ResolutionError "Unknown variable".
C16_SinglePass ==
    ConfigResolved =>
        IF \A lf \in Refs(outcome.config) : Backward(outcome.config, lf)
        THEN /\ outcome.status = "returned"
             /\ \A lf \in Refs(outcome.config) :
                   at_path(outcome.val, lf[1])
                       = at_path(outcome.val, RefPath(lf[2]))
        ELSE outcome.status = UnknownVariable


----------------------------------------------------------------------------
(* Claims on the positional includes *)

\* The one file the operation opened is the file b, which includes nothing.
OpenedB ==
    /\ \E i \in 1..Len(log) : log[i].ev = "open"
    /\ \A i \in 1..Len(log) :
          log[i].ev = "open" => log[i] = Event("open", FileB, "opened")
    /\ \A i, j \in 1..Len(log) :
          (log[i].ev = "open" /\ log[j].ev = "open") => i = j

\* The keys of the entries of a mapping whose values are nodes of type t.
KeysOfType(entries, t) ==
    { entries[i][1] : i \in { j \in DOMAIN entries : entries[j][2].t = t } }

\* The Resolver was given a document with one !include_from at a key of its
\* root that is not the sentinel _, and loaded the file b for it.
IncludeFromLoaded ==
    /\ outcome.op = "resolve"
    /\ outcome.node.t = "dict"
    /\ Cardinality(KeysOfType(outcome.node.entries, "include_from")) = 1
    /\ <<"_">> \notin KeysOfType(outcome.node.entries, "include_from")
    /\ OpenedB

\* C17 as stated: with the expected set derived from the attaching key of a
\* positional !include_from, one identifier or the identifiers between
\* commas, loading succeeds if and only if every top-level key of the
\* included file is in the expected set or starts with an underscore, and
\* raises IncludeError otherwise; an expected key that the file does not
\* hold is no error.
C17_KeyValidation ==
    IncludeFromLoaded =>
        \A key \in KeysOfType(outcome.node.entries, "include_from") :
            IF _validate_include_at_keys(files[FileB].entries, ExpectedKeys(key))
            THEN outcome.status = "IncludeError"
            ELSE outcome.status = "returned"

\* The keys of a mapping in their order.
KeySeq(entries) == [ i \in DOMAIN entries |-> entries[i][1] ]

\* The keys of raw in their order, each !include_at key replaced by the
\* keys of the file b.
RECURSIVE Spliced(_)
Spliced(raw) ==
    IF raw = <<>> THEN <<>>
    ELSE (IF raw[1][2].t = "include_at" THEN KeySeq(files[FileB].entries)
          ELSE << raw[1][1] >>) \o Spliced(Tail(raw))

\* process_includes of merge.py was given a document with an !include_at
\* and no include! list, and loaded the file b for it; the keys of the file
\* are none of the other keys of the document.
IncludeAtLoaded ==
    /\ outcome.op = "merge.process_includes"
    /\ KeysOfType(outcome.node.entries, "include_at") # {}
    /\ ~HasKey(outcome.node.entries, IncludeKey)
    /\ OpenedB
    /\ KeysOf(files[FileB].entries)
           \cap (KeysOf(outcome.node.entries)
                     \ KeysOfType(outcome.node.entries, "include_at")) = {}

\* C18 as stated: process_includes replaces each !include_at key, at its
\* own position, by the top-level keys of the included file, whatever the
\* attaching key is named; the attaching key is gone and the other keys keep
\* their order.
C18_OrderPreserved ==
    IncludeAtLoaded =>
        /\ outcome.status = "returned"
        /\ KeySeq(outcome.val.entries) = Spliced(outcome.node.entries)

----------------------------------------------------------------------------
(* Claims on the resolution context                                        *)

\* The assignments self.ctx[path] = value of the traversal, in the order
\* they were made.  The assignment of the empty mapping a dict handler
\* starts from is left out: the mapping its parent binds later at the same
\* path is that same object, filled.
Bindings == SelectSeq(log, LAMBDA e : e.ev = "bind" /\ e.res # "dict")

\* Two assignments of the traversal to one path, of different values.
Rebound(i, j) ==
    /\ i < j
    /\ Bindings[i].arg = Bindings[j].arg
    /\ Bindings[i].val # Bindings[j].val

\* C20: within one Resolver the context is append-only: once a path is bound
\* to a resolved value, no later step of the traversal (sequence elements,
\* call arguments, the content of an !include / !include_from file) binds
\* that path to a different value.
C20_AppendOnly ==
    outcome.op = "resolve" =>
        \A i \in 1..Len(Bindings), j \in 1..Len(Bindings) : ~Rebound(i, j)

----------------------------------------------------------------------------
(* Claims on the includes the Resolver meets                               *)

\* The Resolver was given a document with one !include_from at a key of its
\* root, and loaded the file b for it.
IncludeFromResolved ==
    /\ outcome.op = "resolve"
    /\ outcome.node.t = "dict"
    /\ Cardinality(KeysOfType(outcome.node.entries, "include_from")) = 1
    /\ OpenedB

\* The entries of raw in their order, the entry of the sentinel replaced by
\* the entries of the file b.
RECURSIVE Merged_(_)
Merged_(raw) ==
    IF raw = <<>> THEN <<>>
    ELSE (IF raw[1][1] = <<"_">> THEN files[FileB].entries ELSE << raw[1] >>)
             \o Merged_(Tail(raw))

----------------------------------------------------------------------------
(* Claims on the invocation of callables                                   *)

\* The invocations fn(...) of the traversal, in the order they were made.
Invocations == SelectSeq(log, LAMBDA e : e.ev = "invoke")

\* The Resolver was given a CallSpec whose positional arguments are plain
\* scalars, and came to invoke its callable.
CallResolved ==
    /\ outcome.op = "resolve"
    /\ outcome.node.t = "call"
    /\ \A i \in DOMAIN outcome.node.args : outcome.node.args[i].t = "scalar"
    /\ Invocations # <<>>

\* C22: the callable is first invoked with the resolved arguments; when that
\* fails with a TypeError and more than one positional argument was given,
\* it is invoked once more with one positional argument, the sequence of all
\* positional arguments; with at most one positional argument there is no
\* second invocation and the failure propagates.
C22_Retry ==
    CallResolved =>
        IF Invocations[1].res = "returned"
        THEN /\ Len(Invocations) = 1
             /\ outcome.status = "returned"
             /\ outcome.val.args = outcome.node.args
        ELSE IF Len(outcome.node.args) > 1
        THEN /\ Len(Invocations) = 2
             /\ IF Invocations[2].res = "returned"
                THEN /\ outcome.status = "returned"
                     /\ outcome.val.args = << List(outcome.node.args) >>
                ELSE outcome.status = Invocations[1].res
        ELSE /\ Len(Invocations) = 1
             /\ outcome.status = Invocations[1].res

----------------------------------------------------------------------------
(* Claims on nested includes                                               *)

\* process_includes, of include.py or of merge.py, returned.
IncludesProcessed ==
    /\ outcome.op \in { "include.process_includes", "merge.process_includes" }
    /\ outcome.status = "returned"

\* C23: both include pipelines expand the includes nested in the content
\* they load before they merge it: what process_includes returns holds no
\* include! key and no IncludeAtSpec.
C23_NestedExpanded ==
    IncludesProcessed =>
        /\ ~HasKey(outcome.val.entries, IncludeKey)
        /\ KeysOfType(outcome.val.entries, "include_at") = {}

----------------------------------------------------------------------------
(* Claims on the base paths                                                *)

\* The include-family nodes that occur anywhere in a tree.
RECURSIVE include_family(_)
include_family(data) ==
    IF data.t \in {"include", "include_from", "include_at"} THEN { data }
    ELSE IF data.t = "dict"
    THEN UNION { include_family(data.entries[i][2]) : i \in DOMAIN data.entries }
    ELSE IF data.t \in {"list", "extend"}
    THEN UNION { include_family(data.items[i]) : i \in DOMAIN data.items }
    ELSE IF data.t = "patch"
    THEN UNION { include_family(data.mapping[i][2]) : i \in DOMAIN data.mapping }
    ELSE IF data.t = "call"
    THEN UNION { include_family(data.args[i]) : i \in DOMAIN data.args }
         \cup UNION { include_family(data.kwargs[i][2]) : i \in DOMAIN data.kwargs }
    ELSE {}

\* C24: set_base_paths stamps every include-family node that occurs anywhere
\* in the parsed tree (in nested mappings and sequences, in the arguments of
\* a CallSpec, in an ExtendSpec or a PatchSpec) with the path of the file
\* the tree was parsed from.
C24_AllStamped ==
    outcome.op = "set_base_paths" =>
        \A n \in include_family(outcome.val) :
            /\ "_base_path" \in DOMAIN n
            /\ n._base_path = outcome.base_path

----------------------------------------------------------------------------
(* Claims on the expression evaluator                                      *)

\* The variables of the expression evaluated.
Found == _extract_variables(outcome.expression)

\* The variables whose lookup raises.
Unresolved == { i \in DOMAIN Found : ~_get(ctx, Found[i]).ok }

\* Each variable of the expression under its own name, with the value its
\* own lookup gives.
OwnNamespace ==
    [ v \in { Found[i] : i \in DOMAIN Found \ Unresolved } |-> _get(ctx, v).val ]

\* The ExpressionErrors whose message names the expression text.
NamesExpression == { DivisionByZero, InvalidExpression }

\* C25: evaluate re-raises a division by zero, a type mismatch and a syntax
\* error as an ExpressionError that names the text of the expression and the
\* cause; a ResolutionError of the lookup of a variable propagates as it is.
C25_ErrorsReRaised ==
    outcome.op = "evaluate" =>
        IF Unresolved # {}
        THEN outcome.status \in { UnknownVariable, FailedToResolve }
        ELSE Let(eval(outcome.expression, OwnNamespace), LAMBDA own :
             (~own.ok /\ own.err \in { "ZeroDivisionError", "TypeError",
                                       "SyntaxError" })
                 => outcome.status \in NamesExpression)

\* The parts of the conditional expression A if C else B.
IfAt == FirstOp(outcome.expression, IfWord, TRUE)
AfterIf == From(outcome.expression, IfAt + 2)
ElseAt == FirstOp(AfterIf, ElseWord, TRUE)
BranchTrue == SubSeq(outcome.expression, 1, IfAt - 1)
Condition == SubSeq(AfterIf, 1, ElseAt - 1)
BranchFalse == From(AfterIf, ElseAt + 4)

\* A conditional expression was evaluated.
ConditionalEvaluated ==
    /\ outcome.op = "evaluate"
    /\ IfAt > 0
    /\ ElseAt > 0

\* C26: A if C else B evaluates the condition first and the selected branch
\* only: when the condition and the selected branch evaluate, a failure of
\* the other branch (a division by zero, a type mismatch, a variable that
\* does not resolve) does not make the evaluation fail, and the result is
\* the value of the selected branch.
C26_SelectedBranchOnly ==
    ConditionalEvaluated =>
        Let(evaluate(Condition, ctx, <<>>), LAMBDA cond :
        cond.ok =>
            Let(evaluate(IF truthy(cond.val) THEN BranchTrue ELSE BranchFalse,
                         ctx, <<>>), LAMBDA selected :
            selected.ok => /\ outcome.status = "returned"
                           /\ outcome.val = selected.val))

\* evaluate came to call eval: every variable resolved and was let through.
Prepared ==
    /\ outcome.op = "evaluate"
    /\ Unresolved = {}
    /\ outcome.status # NonNumeric

\* C29: each variable of an expression is evaluated with its own resolved
\* value: the rewriting of dotted names to underscore names makes no two
\* variables (a.b and a_b, a.b and a.bc) share a binding and alters nothing
\* of the expression but the occurrences of the variable, so that the
\* outcome is that of the expression as it was written, each variable bound
\* to its own value.
C29_OwnBinding ==
    Prepared =>
        Let(eval(outcome.expression, OwnNamespace), LAMBDA own :
        IF own.ok
        THEN outcome.status = "returned" /\ outcome.val = own.val
        ELSE outcome.status = (IF own.err = "ZeroDivisionError"
                               THEN DivisionByZero ELSE InvalidExpression))

----------------------------------------------------------------------------
(* Claims on the termination of include expansion *)

\* The files the document of the file p names in an include of one of kinds:
\* the entries of its include! list, or the paths of its include nodes.
Included(p, kinds) ==
    LET es == files[p].entries
        listed == IF "include!" \in kinds
                  THEN { PopIncludes(es)[i].v : i \in DOMAIN PopIncludes(es) }
                  ELSE {}
        tagged == { es[i][2].path :
                      i \in { j \in DOMAIN es : es[j][2].t \in kinds } }
    IN  (listed \cup tagged) \cap DOMAIN files

\* The files reached from p by one include or more; two files there are.
IncludedFrom(p, kinds) ==
    Included(p, kinds) \cup UNION { Included(q, kinds) : q \in Included(p, kinds) }

\* The file p includes itself, directly or through a file it includes, or it
\* includes a file that does.
SelfIncluding(p, kinds) ==
    \E q \in { p } \cup IncludedFrom(p, kinds) : q \in IncludedFrom(q, kinds)

\* The includes process_includes expands, and the ones an expansion started
\* by the Resolver meets.
EagerKinds == { "include!", "include_at" }
AllKinds == { "include!", "include_at", "include", "include_from" }

KindsOf(op) == IF op = "resolve" THEN AllKinds ELSE EagerKinds

\* The expansion under way, or ended, is one of a self-including document.
Cyclic == outcome.op # "none" /\ SelfIncluding(outcome.path, KindsOf(outcome.op))
Acyclic == outcome.op # "none" /\ ~SelfIncluding(outcome.path, KindsOf(outcome.op))

Ended == outcome.op # "none" /\ outcome.status # "running"

\* C27: include expansion has no cycle or depth guard: the expansion of a
\* document that includes itself, directly or through other files, never
\* returns (it nests calls until the interpreter's limit ends it), by
\* process_includes as by Resolver._include, while the expansion of an
\* acyclic include graph always comes to an end.
C27_NoGuard ==
    /\ [](Cyclic => outcome.status # "returned")
    /\ (Acyclic ~> Ended)

----------------------------------------------------------------------------
(* Claims on the mappings passed as sources *)

\* C28: loading never mutates a mapping the caller passed as a source: after
\* merge_all_sources over the mappings d1, ..., dn, every one of them, its
\* nested mappings and lists included, holds what it held before the call.
C28_SourcesUntouched ==
    outcome.op = "merge_all_sources" =>
        \A i \in DOMAIN heap.sources :
            ValueOf(heap.objects, heap.sources[i]) = outcome.before[i]

----------------------------------------------------------------------------
(* Claims on the tag strings of a mapping passed as a source *)

\* The spec node of a tag string, in a tree that is otherwise left as it is.
RECURSIVE TagsConstructed(_)
TagsConstructed(obj) ==
    IF obj.t = "dict"
    THEN Dict([ i \in DOMAIN obj.entries |->
                  << obj.entries[i][1], TagsConstructed(obj.entries[i][2]) >> ])
    ELSE IF obj.t = "list"
    THEN List([ i \in DOMAIN obj.items |-> TagsConstructed(obj.items[i]) ])
    ELSE IF obj.t = "str" /\ StartsWith(obj.v, <<"!">>) /\ scalar(obj.v).ok
    THEN scalar(obj.v).val
    ELSE obj

\* C30: in a mapping with tag strings, which is written out and parsed
\* again, every value that is no tag string is preserved in value and type
\* (None, booleans, numbers, plain strings, nested sequences and mappings)
\* and only the tag strings become their spec nodes; a mapping without tag
\* strings is returned as it is.
C30_ValuesPreserved ==
    outcome.op = "_process_dict_tags" /\ outcome.status = "returned" =>
        outcome.val = TagsConstructed(outcome.data)

====
